---- MODULE Spec2Model ----
(***************************************************************************)
(* schema-canvas: the schema translation layer.                            *)
(*                                                                         *)
(*   - ExportManager.export and the exporters it dispatches to             *)
(*     (JSON codec, SQL DDL for four dialects, Prisma, Django, Laravel,    *)
(*     TypeORM)                                                            *)
(*   - importFromJSON                                                      *)
(*   - the Django source importer (parseDjangoModels)                      *)
(*                                                                         *)
(* Generated text is modelled as the sequence of statements / lines the    *)
(* exporter pushes, each a record of the parts the exporter interpolates.  *)
(* An optional value (TypeScript `x?: T`) is the empty sequence when it is *)
(* undefined and a one-element sequence when it is set.                    *)
(***************************************************************************)
EXTENDS Integers, Sequences, FiniteSets, TLC

VARIABLES
    schema,      \* the Schema handed to an exporter
    options,     \* the ExportOptions / arguments of the last call
    exported,    \* outcome of the last export call
    reimported,  \* outcome of importFromJSON on the exported text
    content,     \* Django source text handed to parseDjangoModels
    imported,    \* outcome of parseDjangoModels
    store,       \* state of the useSchema store
    nextId,      \* number of ids the id generators have handed out
    layout,      \* arguments and outcome of the last AutoLayout call
    canvas       \* state of the useCanvasState hook, its timers and the menu it renders

vars == <<schema, options, exported, reimported, content, imported, store, nextId, layout,
         canvas>>

----------------------------------------------------------------------------
(* Optional values and sequence helpers                                    *)

None == <<>>
Some(v) == <<v>>
IsSome(o) == o # <<>>
Val(o) == o[1]

\* JavaScript truthiness of an optional string: undefined and '' are falsy.
Truthy(o) == IsSome(o) /\ Val(o) # ""

RECURSIVE Concat(_)
Concat(ss) == IF ss = <<>> THEN <<>> ELSE Head(ss) \o Concat(Tail(ss))

\* Array.prototype.find: the first element satisfying P, if any.
Find(s, P(_)) ==
    IF \E i \in 1..Len(s) : P(s[i])
    THEN Some(s[CHOOSE i \in 1..Len(s) : P(s[i]) /\ \A j \in 1..(i - 1) : ~P(s[j])])
    ELSE None

\* Array.prototype.filter
Filter(s, P(_)) == SelectSeq(s, P)

Range(s) == {s[i] : i \in 1..Len(s)}

SeqsUpTo(S, n) == UNION {[1..k -> S] : k \in 0..n}

NotCalled == [status |-> "none"]

----------------------------------------------------------------------------
(* Bounds of the checked input families                                    *)

MaxRelationships == 1

----------------------------------------------------------------------------
(* Schema model (features/schema/types/schema.types.ts)                    *)

ColumnTypes ==
    {"string", "text", "integer", "bigint", "float", "decimal", "boolean",
     "date", "datetime", "timestamp", "time", "json", "jsonb", "uuid",
     "binary", "enum", "array"}

SQLDialects == {"postgresql", "mysql", "sqlite", "sqlserver"}

ExportFormats == {"json", "sql", "prisma", "django", "laravel", "typeorm"}

Column(id, name, type, nullable, primaryKey, unique, defaultValue, foreignKey, description) ==
    [id |-> id, name |-> name, type |-> type, nullable |-> nullable,
     primaryKey |-> primaryKey, unique |-> unique, defaultValue |-> defaultValue,
     foreignKey |-> foreignKey, description |-> description]

ForeignKey(tableId, columnId, onDelete, onUpdate) ==
    [tableId |-> tableId, columnId |-> columnId, onDelete |-> onDelete, onUpdate |-> onUpdate]

Table(id, name, position, columns, description) ==
    [id |-> id, name |-> name, position |-> position, columns |-> columns,
     description |-> description]

Relationship(id, sourceTableId, sourceColumnId, targetTableId, targetColumnId, type, name, onDelete, onUpdate) ==
    [id |-> id, sourceTableId |-> sourceTableId, sourceColumnId |-> sourceColumnId,
     targetTableId |-> targetTableId, targetColumnId |-> targetColumnId,
     type |-> type, name |-> name, onDelete |-> onDelete, onUpdate |-> onUpdate]

SchemaRec(id, name, description, tables, relationships, createdAt, updatedAt, version) ==
    [id |-> id, name |-> name, description |-> description, tables |-> tables,
     relationships |-> relationships, createdAt |-> createdAt,
     updatedAt |-> updatedAt, version |-> version]

----------------------------------------------------------------------------
(* Input family for the exporters: two tables of two columns, at most one  *)
(* column-level foreign key, up to MaxRelationships relationships; the     *)
(* references range over every existing column plus a missing column and a *)
(* missing table.                                                          *)

TableIds == <<"t1", "t2">>
TableNames == <<"users", "blog_posts">>
ColumnIds == << <<"t1c1", "t1c2">>, <<"t2c1", "t2c2">> >>
ColumnNames == <<"id", "owner_id">>

TableIdx == 1..Len(TableIds)
ColumnIdx == 1..Len(ColumnNames)

MissingTableId == "tX"
MissingColumnId == "cX"

\* (tableId, columnId) pairs a foreign key or relationship end may carry
Refs ==
    {<<TableIds[i], ColumnIds[i][j]>> : i \in TableIdx, j \in ColumnIdx}
    \cup {<<TableIds[1], MissingColumnId>>, <<MissingTableId, ColumnIds[1][1]>>}

Date(ms) == [ms |-> ms]

\* fkOf[i][j] is the optional ForeignKey of column j of table i;
\* pkOf[i][j] its primaryKey flag.
FamilyTable(i, pkOf, fkOf) ==
    Table(TableIds[i], TableNames[i], [x |-> 100 * i, y |-> 0],
          [j \in ColumnIdx |->
              Column(ColumnIds[i][j], ColumnNames[j], "integer", ~pkOf[i][j],
                     pkOf[i][j], FALSE, None, fkOf[i][j], None)],
          None)

FamilySchema(pkOf, fkOf, rels) ==
    SchemaRec("schema-1", "shop", None,
              [i \in TableIdx |-> FamilyTable(i, pkOf, fkOf)],
              rels, Date(1000), Date(2000), [number |-> 1])

NoForeignKeys == [i \in TableIdx |-> [j \in ColumnIdx |-> None]]
FirstColumnKey == [i \in TableIdx |-> [j \in ColumnIdx |-> j = 1]]

ForeignKeyChoices ==
    {NoForeignKeys} \cup
    {[NoForeignKeys EXCEPT ![i][j] = Some(ForeignKey(r[1], r[2], Some("CASCADE"), None))] :
        i \in TableIdx, j \in ColumnIdx, r \in Refs}

RelationshipChoices ==
    {Relationship("rel", s[1], s[2], t[1], t[2], "one-to-many", n, None, None) :
        s \in Refs, t \in Refs, n \in {None, Some("owner")}}

PrimaryKeyChoices == [TableIdx -> [ColumnIdx -> BOOLEAN]]

\* Schemas that vary the references
ReferenceSchemas ==
    {FamilySchema(FirstColumnKey, fk, rels) :
        fk \in ForeignKeyChoices, rels \in SeqsUpTo(RelationshipChoices, MaxRelationships)}

\* Schemas that vary the primary-key flags
KeySchemas ==
    {FamilySchema(pk, NoForeignKeys, <<>>) : pk \in PrimaryKeyChoices}

\* Schemas that vary what the JSON codec has to carry: optional texts,
\* default values, foreign-key actions, relationship names, the version.
CodecSchemas ==
    {SchemaRec("schema-1", n, d,
               << Table("t1", "users", [x |-> 10, y |-> 20],
                        << Column("t1c1", "id", "integer", FALSE, TRUE, TRUE, dv, fk, d) >>,
                        d) >>,
               rels, Date(1000), Date(2000), [number |-> v]) :
        n \in {"shop", ""}, d \in {None, Some("text")}, dv \in {None, Some("0")},
        fk \in {None, Some(ForeignKey("t1", "t1c1", None, None)),
                Some(ForeignKey("t1", "t1c1", Some("CASCADE"), Some("NO ACTION")))},
        rels \in {<<>>,
                  << Relationship("rel", "t1", "t1c1", "t1", "t1c1", "one-to-one",
                                  None, None, None) >>,
                  << Relationship("rel", "t1", "t1c1", "t1", "t1c1", "one-to-one",
                                  Some("self"), Some("SET NULL"), Some("CASCADE")) >>},
        v \in {1, 2}}

\* what new Date() returns during an export, and during a later import
Clock == {Date(5000)}
ImportClock == {Date(7000)}

----------------------------------------------------------------------------
(* lib/export/sql-exporter.ts                                              *)

SqlTypeMap(dialect) ==
    CASE dialect = "postgresql" ->
        [string |-> "VARCHAR(255)", text |-> "TEXT", integer |-> "INTEGER",
         bigint |-> "BIGINT", float |-> "FLOAT", decimal |-> "DECIMAL(10,2)",
         boolean |-> "BOOLEAN", date |-> "DATE", datetime |-> "TIMESTAMP",
         timestamp |-> "TIMESTAMP", time |-> "TIME", json |-> "JSON",
         jsonb |-> "JSONB", uuid |-> "UUID", binary |-> "BYTEA",
         enum |-> "VARCHAR(50)", array |-> "TEXT[]"]
      [] dialect = "mysql" ->
        [string |-> "VARCHAR(255)", text |-> "TEXT", integer |-> "INT",
         bigint |-> "BIGINT", float |-> "FLOAT", decimal |-> "DECIMAL(10,2)",
         boolean |-> "BOOLEAN", date |-> "DATE", datetime |-> "DATETIME",
         timestamp |-> "TIMESTAMP", time |-> "TIME", json |-> "JSON",
         jsonb |-> "JSON", uuid |-> "CHAR(36)", binary |-> "BLOB",
         enum |-> "ENUM()", array |-> "JSON"]
      [] dialect = "sqlite" ->
        [string |-> "TEXT", text |-> "TEXT", integer |-> "INTEGER",
         bigint |-> "INTEGER", float |-> "REAL", decimal |-> "REAL",
         boolean |-> "INTEGER", date |-> "TEXT", datetime |-> "TEXT",
         timestamp |-> "TEXT", time |-> "TEXT", json |-> "TEXT",
         jsonb |-> "TEXT", uuid |-> "TEXT", binary |-> "BLOB",
         enum |-> "TEXT", array |-> "TEXT"]
      [] dialect = "sqlserver" ->
        [string |-> "NVARCHAR(255)", text |-> "NVARCHAR(MAX)", integer |-> "INT",
         bigint |-> "BIGINT", float |-> "FLOAT", decimal |-> "DECIMAL(10,2)",
         boolean |-> "BIT", date |-> "DATE", datetime |-> "DATETIME2",
         timestamp |-> "DATETIME2", time |-> "TIME", json |-> "NVARCHAR(MAX)",
         jsonb |-> "NVARCHAR(MAX)", uuid |-> "UNIQUEIDENTIFIER",
         binary |-> "VARBINARY(MAX)", enum |-> "NVARCHAR(50)",
         array |-> "NVARCHAR(MAX)"]

mapColumnType(type, dialect) ==
    IF type \in DOMAIN SqlTypeMap(dialect)
    THEN SqlTypeMap(dialect)[type]
    ELSE SqlTypeMap(dialect)["string"]

\* A quoted identifier: the quote character and the name inside it.
formatTableName(name, dialect) ==
    IF dialect = "mysql" THEN [quote |-> "backtick", name |-> name]
    ELSE [quote |-> "double", name |-> name]

formatColumnName(name, dialect) ==
    IF dialect = "mysql" THEN [quote |-> "backtick", name |-> name]
    ELSE [quote |-> "double", name |-> name]

\* String primitives on the literals the checked schemas carry as defaults.
toUpperCase(v) ==
    CASE v = "current_timestamp" -> "CURRENT_TIMESTAMP"
      [] v = "now" -> "NOW"
      [] v = "null" -> "NULL"
      [] v = "true" -> "TRUE"
      [] v = "false" -> "FALSE"
      [] v = "active" -> "ACTIVE"
      [] v = "it's" -> "IT'S"
      [] v = "postgresql" -> "POSTGRESQL"
      [] v = "mysql" -> "MYSQL"
      [] v = "sqlite" -> "SQLITE"
      [] v = "sqlserver" -> "SQLSERVER"
      [] OTHER -> v

toLowerCase(v) ==
    CASE v = "CURRENT_TIMESTAMP" -> "current_timestamp"
      [] v = "NOW" -> "now"
      [] v = "NULL" -> "null"
      [] v = "TRUE" -> "true"
      [] v = "FALSE" -> "false"
      [] v = "Users" -> "users"
      [] v = "BlogPosts" -> "blogposts"
      [] OTHER -> v

\* !isNaN(Number(value)) && value.trim() !== ''
IsNumericLiteral(v) == v \in {"0", "42", "3.14"}

\* value.replace(/'/g, "''")
EscapeQuotes(v) == IF v = "it's" THEN "it''s" ELSE v

formatDefaultValue(value, dialect) ==
    IF value = "" THEN [kind |-> "empty", text |-> ""]
    ELSE IF toUpperCase(value) = "CURRENT_TIMESTAMP"
        THEN [kind |-> "keyword", text |-> "CURRENT_TIMESTAMP"]
    ELSE IF toUpperCase(value) = "NULL"
        THEN [kind |-> "keyword", text |-> "NULL"]
    ELSE IF IsNumericLiteral(value)
        THEN [kind |-> "number", text |-> value]
    ELSE IF toLowerCase(value) = "true"
        THEN [kind |-> "boolean", text |-> IF dialect = "postgresql" THEN "TRUE" ELSE "1"]
    ELSE IF toLowerCase(value) = "false"
        THEN [kind |-> "boolean", text |-> IF dialect = "postgresql" THEN "FALSE" ELSE "0"]
    ELSE [kind |-> "string", text |-> EscapeQuotes(value)]

HasForeignKeys(table) == \E j \in 1..Len(table.columns) : IsSome(table.columns[j].foreignKey)
HasNoForeignKeys(table) == ~HasForeignKeys(table)

SortTablesByDependencies_Unsorted(tables) == tables

\* [...schema.tables].sort(...): a stable sort on "has a foreign-key column"
SortTablesByDependencies(tables) ==
    Filter(tables, HasNoForeignKeys) \o Filter(tables, HasForeignKeys)

IsPrimaryKey(column) == column.primaryKey

InlinePrimaryKey_AnyKey(table, column, dialect) ==
    column.primaryKey /\ dialect # "sqlserver"

\* the inline PRIMARY KEY of a column definition
InlinePrimaryKey(table, column, dialect) ==
    /\ column.primaryKey
    /\ Len(Filter(table.columns, IsPrimaryKey)) = 1
    /\ dialect # "sqlserver"

SqlColumnDef(table, column, dialect) ==
    [name |-> formatColumnName(column.name, dialect),
     type |-> mapColumnType(column.type, dialect),
     notNull |-> ~column.nullable,
     unique |-> column.unique,
     default |-> IF Truthy(column.defaultValue)
                 THEN Some(formatDefaultValue(Val(column.defaultValue), dialect))
                 ELSE None,
     primaryKey |-> InlinePrimaryKey(table, column, dialect)]

\* the table-level constraints of a CREATE TABLE
SqlTableConstraints(table, dialect) ==
    LET primaryKeyColumns == Filter(table.columns, IsPrimaryKey)
    IN IF Len(primaryKeyColumns) > 1 \/ (Len(primaryKeyColumns) = 1 /\ dialect = "sqlserver")
       THEN << [kind |-> "PRIMARY KEY",
                columns |-> [k \in 1..Len(primaryKeyColumns) |->
                                formatColumnName(primaryKeyColumns[k].name, dialect)]] >>
       ELSE <<>>

SqlCreateTable(table, dialect) ==
    [kind |-> "CREATE TABLE",
     table |-> formatTableName(table.name, dialect),
     columns |-> [j \in 1..Len(table.columns) |-> SqlColumnDef(table, table.columns[j], dialect)],
     constraints |-> SqlTableConstraints(table, dialect)]

\* the constraint name: its parts joined with "_", cut to 64 characters on MySQL
ConstraintName(parts, dialect) ==
    [quoted |-> formatColumnName(parts, dialect),
     maxLength |-> IF dialect = "mysql" THEN Some(64) ELSE None]

\* " ON DELETE x" / " ON UPDATE x": appended unless absent or NO ACTION
ActionClause(action) ==
    IF Truthy(action) /\ Val(action) # "NO ACTION" THEN action ELSE None

AlterTable(sourceTable, sourceColumn, targetTable, targetColumn, nameParts, onDelete, onUpdate, dialect) ==
    [kind |-> "ALTER TABLE",
     table |-> formatTableName(sourceTable.name, dialect),
     constraint |-> ConstraintName(nameParts, dialect),
     column |-> formatColumnName(sourceColumn.name, dialect),
     refTable |-> formatTableName(targetTable.name, dialect),
     refColumn |-> formatColumnName(targetColumn.name, dialect),
     onDelete |-> ActionClause(onDelete),
     onUpdate |-> ActionClause(onUpdate)]

TableById(sch, id) == LET P(t) == t.id = id IN Find(sch.tables, P)
ColumnById(table, id) == LET P(c) == c.id = id IN Find(table.columns, P)

\* the statements of one column in the "Add foreign key constraints" loop
SqlColumnForeignKey(sch, table, column, dialect) ==
    IF ~IsSome(column.foreignKey) THEN <<>>
    ELSE LET fk == Val(column.foreignKey)
             targetTable == TableById(sch, fk.tableId)
         IN IF ~IsSome(targetTable) THEN <<>>
            ELSE LET targetColumn == ColumnById(Val(targetTable), fk.columnId)
                 IN IF ~(IsSome(targetColumn) /\ Val(targetColumn).name # "") THEN <<>>
                    ELSE << AlterTable(table, column, Val(targetTable), Val(targetColumn),
                                       <<"fk", table.name, column.name, Val(targetTable).name>>,
                                       fk.onDelete, fk.onUpdate, dialect) >>

RelationshipNotCovered_Unguarded(sourceColumn, relationship) == TRUE

\* the guard of the relationship loop on the source column
RelationshipNotCovered(sourceColumn, relationship) == ~IsSome(sourceColumn.foreignKey)

\* the statements of one relationship in the "Add relationships as foreign keys" loop
SqlRelationship(sch, relationship, dialect) ==
    LET sourceTable == TableById(sch, relationship.sourceTableId)
        targetTable == TableById(sch, relationship.targetTableId)
    IN IF ~(IsSome(sourceTable) /\ IsSome(targetTable)) THEN <<>>
       ELSE LET sourceColumn == ColumnById(Val(sourceTable), relationship.sourceColumnId)
                targetColumn == ColumnById(Val(targetTable), relationship.targetColumnId)
            IN IF IsSome(sourceColumn) /\ IsSome(targetColumn)
                  /\ RelationshipNotCovered(Val(sourceColumn), relationship)
               THEN << AlterTable(Val(sourceTable), Val(sourceColumn), Val(targetTable),
                                  Val(targetColumn),
                                  <<"rel", Val(sourceTable).name, Val(targetTable).name>>,
                                  relationship.onDelete, relationship.onUpdate, dialect) >>
               ELSE <<>>

exportToSQL(sch, dialect, now) ==
    LET sortedTables == SortTablesByDependencies(sch.tables)
    IN  << [kind |-> "header", schema |-> sch.name, generated |-> now,
            dialect |-> toUpperCase(dialect)] >>
        \o [i \in 1..Len(sortedTables) |-> SqlCreateTable(sortedTables[i], dialect)]
        \o Concat([i \in 1..Len(sch.tables) |->
               Concat([j \in 1..Len(sch.tables[i].columns) |->
                   SqlColumnForeignKey(sch, sch.tables[i], sch.tables[i].columns[j], dialect)])])
        \o Concat([r \in 1..Len(sch.relationships) |->
               SqlRelationship(sch, sch.relationships[r], dialect)])

----------------------------------------------------------------------------
(* lib/export/prisma-exporter.ts                                           *)

mapPrismaType(type) ==
    LET typeMap ==
        [string |-> "String", text |-> "String", integer |-> "Int",
         bigint |-> "BigInt", float |-> "Float", decimal |-> "Decimal",
         boolean |-> "Boolean", date |-> "DateTime", datetime |-> "DateTime",
         timestamp |-> "DateTime", time |-> "DateTime", json |-> "Json",
         jsonb |-> "Json", uuid |-> "String", binary |-> "Bytes",
         enum |-> "String", array |-> "Json"]
    IN IF type \in DOMAIN typeMap THEN typeMap[type] ELSE "String"

\* snake_case to camelCase
formatPrismaFieldName(name) ==
    CASE name = "owner_id" -> "ownerId"
      [] OTHER -> name

\* split on _, blank or -, capitalise each word, join
formatPrismaModelName(name) ==
    CASE name = "users" -> "Users"
      [] name = "blog_posts" -> "BlogPosts"
      [] OTHER -> name

\* value.toLowerCase().includes('now') || ...includes('current_timestamp')
MentionsNow(v) == toLowerCase(v) \in {"now", "current_timestamp"}

PrismaDefault(v) ==
    IF toLowerCase(v) = "uuid_generate_v4()" THEN <<"@default", "uuid()">>
    ELSE IF MentionsNow(v) THEN <<"@default", "now()">>
    ELSE IF IsNumericLiteral(v) THEN <<"@default", v>>
    ELSE IF toLowerCase(v) \in {"true", "false"} THEN <<"@default", v>>
    ELSE <<"@default", "quoted", v>>

PrismaField(table, column) ==
    LET hasDefault == Truthy(column.defaultValue)
    IN << [kind |-> "field",
           name |-> formatPrismaFieldName(column.name),
           type |-> mapPrismaType(column.type),
           \* how many times '?' is appended to the field definition
           optionalMarks |-> (IF column.nullable THEN 1 ELSE 0)
                             + (IF column.nullable /\ ~hasDefault THEN 1 ELSE 0),
           modifiers |->
               (IF ~column.nullable /\ column.type = "timestamp" /\ ~hasDefault
                THEN << <<"@default", "now()">> >> ELSE <<>>)
               \o (IF column.primaryKey /\ Len(Filter(table.columns, IsPrimaryKey)) = 1
                   THEN << <<"@id">> >> ELSE <<>>)
               \o (IF column.unique THEN << <<"@unique">> >> ELSE <<>>)
               \o (IF hasDefault THEN <<PrismaDefault(Val(column.defaultValue))>> ELSE <<>>)] >>
       \o (IF Truthy(column.description)
           THEN << [kind |-> "comment", text |-> Val(column.description)] >> ELSE <<>>)

PrismaCompositeId(table) ==
    LET primaryKeyColumns == Filter(table.columns, IsPrimaryKey)
    IN IF Len(primaryKeyColumns) > 1
       THEN << [kind |-> "@@id",
                fields |-> [k \in 1..Len(primaryKeyColumns) |->
                               formatPrismaFieldName(primaryKeyColumns[k].name)]] >>
       ELSE <<>>

RelationOptions(onDelete, onUpdate) ==
    (IF IsSome(ActionClause(onDelete)) THEN << <<"onDelete", Val(onDelete)>> >> ELSE <<>>)
    \o (IF IsSome(ActionClause(onUpdate)) THEN << <<"onUpdate", Val(onUpdate)>> >> ELSE <<>>)

\* the name a relation field references on the target table
PrismaTargetFieldName(targetTable, columnId) ==
    LET targetColumn == ColumnById(targetTable, columnId)
    IN formatPrismaFieldName(
           IF IsSome(targetColumn) /\ Val(targetColumn).name # ""
           THEN Val(targetColumn).name ELSE "id")

\* "Add relationships from this table's foreign keys": the line of one column
PrismaRelationField(sch, table, column) ==
    IF ~IsSome(column.foreignKey) THEN <<>>
    ELSE LET fk == Val(column.foreignKey)
             targetTable == TableById(sch, fk.tableId)
         IN IF ~IsSome(targetTable) THEN <<>>
            ELSE LET targetModelName == formatPrismaModelName(Val(targetTable).name)
                     fieldName == formatPrismaFieldName(column.name)
                 IN << [kind |-> "relation",
                        name |-> IF fieldName # toLowerCase(targetModelName)
                                 THEN <<toLowerCase(targetModelName)>>
                                 ELSE <<targetModelName, "Relation">>,
                        model |-> targetModelName,
                        fields |-> <<fieldName>>,
                        references |-> <<PrismaTargetFieldName(Val(targetTable), fk.columnId)>>,
                        options |-> RelationOptions(fk.onDelete, fk.onUpdate)] >>

\* "Add reverse relationships": does the loop body reach the lines.push for
\* this incoming relationship of `table`?
PrismaReverseEmitted(sch, table, relationship) ==
    LET sourceTable == TableById(sch, relationship.sourceTableId)
    IN /\ relationship.targetTableId = table.id
       /\ IsSome(sourceTable)
       /\ LET sourceColumn == ColumnById(Val(sourceTable), relationship.sourceColumnId)
              targetColumn == ColumnById(table, relationship.targetColumnId)
          IN /\ IsSome(sourceColumn)
             /\ IsSome(targetColumn)
             \* existingForeignKey = sourceColumn.foreignKey?.tableId === table.id
             /\ ~(IsSome(Val(sourceColumn).foreignKey)
                  /\ Val(Val(sourceColumn).foreignKey).tableId = table.id)

\* The template literal of the pushed line evaluates
\*   relationship.name || sourceModelName + targetModelName
\* where targetModelName is declared (const) only inside the preceding
\* foreign-key loop's block: evaluating it raises a ReferenceError.
PrismaReverseRaises(sch, table, relationship) ==
    PrismaReverseEmitted(sch, table, relationship) /\ ~Truthy(relationship.name)

PrismaReverseField(sch, table, relationship) ==
    IF ~PrismaReverseEmitted(sch, table, relationship) THEN <<>>
    ELSE LET sourceTable == Val(TableById(sch, relationship.sourceTableId))
             sourceModelName == formatPrismaModelName(sourceTable.name)
             sourceColumn == Val(ColumnById(sourceTable, relationship.sourceColumnId))
             targetColumn == Val(ColumnById(table, relationship.targetColumnId))
         IN << [kind |-> "reverse",
                name |-> IF relationship.type = "one-to-many"
                         THEN <<toLowerCase(sourceModelName), "s">>
                         ELSE <<toLowerCase(sourceModelName)>>,
                model |-> sourceModelName,
                relation |-> relationship.name,
                fields |-> <<formatPrismaFieldName(targetColumn.name)>>,
                references |-> <<formatPrismaFieldName(sourceColumn.name)>>,
                options |-> RelationOptions(relationship.onDelete, relationship.onUpdate)] >>

PrismaModelBody(sch, table) ==
    Concat([j \in 1..Len(table.columns) |-> PrismaField(table, table.columns[j])])
    \o PrismaCompositeId(table)
    \o Concat([j \in 1..Len(table.columns) |-> PrismaRelationField(sch, table, table.columns[j])])
    \o Concat([r \in 1..Len(sch.relationships) |->
                  PrismaReverseField(sch, table, sch.relationships[r])])
    \o (IF Truthy(table.description)
        THEN << [kind |-> "comment", text |-> Val(table.description)] >> ELSE <<>>)
    \o (IF formatPrismaModelName(table.name) # table.name
        THEN << [kind |-> "@@map", name |-> table.name] >> ELSE <<>>)

\* model <Name> { ... }
PrismaModel(sch, table) ==
    [kind |-> "model", name |-> formatPrismaModelName(table.name),
     body |-> PrismaModelBody(sch, table)]

Returned(text) == [status |-> "ok", text |-> text]
Raised(error, message) == [status |-> "error", error |-> error, message |-> message]

exportToPrisma(sch) ==
    IF \E i \in 1..Len(sch.tables), r \in 1..Len(sch.relationships) :
           PrismaReverseRaises(sch, sch.tables[i], sch.relationships[r])
    THEN Raised("ReferenceError", <<"targetModelName is not defined">>)
    ELSE Returned(<< [kind |-> "generator"], [kind |-> "datasource"] >>
                  \o [i \in 1..Len(sch.tables) |-> PrismaModel(sch, sch.tables[i])])

----------------------------------------------------------------------------
(* lib/export/json-exporter.ts                                             *)
(*                                                                         *)
(* JSON text is modelled as the value tree it denotes: an object is a      *)
(* function from its keys, an array a sequence.  JSON.stringify leaves out *)
(* every key whose value is undefined and writes a Date as its ISO string. *)

\* JSON.stringify of an object literal whose property values may be undefined
JsonObject(properties) ==
    [k \in {key \in DOMAIN properties : IsSome(properties[key])} |-> Val(properties[k])]

\* property access on a parsed object: undefined when the key is absent
Get(object, key) == IF key \in DOMAIN object THEN Some(object[key]) ELSE None

\* Date.prototype.toISOString / toJSON, and new Date(isoString)
toISOString(date) == [iso |-> date.ms]
NewDate(isoString) == Date(isoString.iso)

JsonForeignKey(fk) ==
    JsonObject([tableId |-> Some(fk.tableId), columnId |-> Some(fk.columnId),
                onDelete |-> fk.onDelete, onUpdate |-> fk.onUpdate])

JsonColumn(column) ==
    JsonObject([id |-> Some(column.id), name |-> Some(column.name),
                type |-> Some(column.type), nullable |-> Some(column.nullable),
                primaryKey |-> Some(column.primaryKey), unique |-> Some(column.unique),
                defaultValue |-> column.defaultValue,
                description |-> column.description,
                foreignKey |-> IF IsSome(column.foreignKey)
                               THEN Some(JsonForeignKey(Val(column.foreignKey)))
                               ELSE None])

JsonTable(table, includePositions) ==
    JsonObject([id |-> Some(table.id), name |-> Some(table.name),
                description |-> table.description,
                position |-> IF includePositions THEN Some(table.position) ELSE None,
                columns |-> Some([j \in 1..Len(table.columns) |-> JsonColumn(table.columns[j])])])

JsonRelationship(relationship) ==
    JsonObject([id |-> Some(relationship.id), name |-> relationship.name,
                sourceTableId |-> Some(relationship.sourceTableId),
                sourceColumnId |-> Some(relationship.sourceColumnId),
                targetTableId |-> Some(relationship.targetTableId),
                targetColumnId |-> Some(relationship.targetColumnId),
                type |-> Some(relationship.type),
                onDelete |-> relationship.onDelete,
                onUpdate |-> relationship.onUpdate])

\* the envelope's format version
JsonEnvelopeVersion == [string |-> "1.0.0"]

exportToJSON(sch, includePositions, now) ==
    JsonObject(
        [version |-> Some(JsonEnvelopeVersion),
         metadata |-> Some(JsonObject(
             [name |-> Some(sch.name), description |-> sch.description,
              createdAt |-> Some(toISOString(sch.createdAt)),
              updatedAt |-> Some(toISOString(sch.updatedAt)),
              exportedAt |-> Some(toISOString(now))])),
         tables |-> Some([i \in 1..Len(sch.tables) |->
                             JsonTable(sch.tables[i], includePositions)]),
         relationships |-> Some([r \in 1..Len(sch.relationships) |->
                                    JsonRelationship(sch.relationships[r])])])

ImportedForeignKey(fk) ==
    ForeignKey(fk.tableId, fk.columnId, Get(fk, "onDelete"), Get(fk, "onUpdate"))

ImportedColumn(column) ==
    Column(column.id, column.name, column.type, column.nullable, column.primaryKey,
           column.unique, Get(column, "defaultValue"),
           IF IsSome(Get(column, "foreignKey"))
           THEN Some(ImportedForeignKey(column.foreignKey)) ELSE None,
           Get(column, "description"))

ImportedTable(table) ==
    Table(table.id, table.name,
          IF IsSome(Get(table, "position")) THEN table.position ELSE [x |-> 0, y |-> 0],
          [j \in 1..Len(table.columns) |-> ImportedColumn(table.columns[j])],
          Get(table, "description"))

ImportedRelationship(rel) ==
    Relationship(rel.id, rel.sourceTableId, rel.sourceColumnId, rel.targetTableId,
                 rel.targetColumnId, rel.type, Get(rel, "name"),
                 Get(rel, "onDelete"), Get(rel, "onUpdate"))

\* data.version || 1
ImportedVersion(data) == IF IsSome(Get(data, "version")) THEN data.version ELSE [number |-> 1]

\* data.metadata?.name || 'Imported Schema'
ImportedName(data) ==
    IF IsSome(Get(data, "metadata")) /\ Truthy(Get(data.metadata, "name"))
    THEN data.metadata.name ELSE "Imported Schema"

ImportedDate(data, key, now) ==
    IF IsSome(Get(data, "metadata")) /\ IsSome(Get(data.metadata, key))
    THEN NewDate(data.metadata[key]) ELSE now

importFromJSON(data, now) ==
    IF ~IsSome(Get(data, "tables"))
    THEN Raised("Error", <<"Failed to import JSON: ", "Invalid JSON format: missing tables array">>)
    ELSE Returned(
        SchemaRec(ImportedName(data), ImportedName(data),
                  IF IsSome(Get(data, "metadata")) THEN Get(data.metadata, "description") ELSE None,
                  [i \in 1..Len(data.tables) |-> ImportedTable(data.tables[i])],
                  IF IsSome(Get(data, "relationships"))
                  THEN [r \in 1..Len(data.relationships) |->
                           ImportedRelationship(data.relationships[r])]
                  ELSE <<>>,
                  ImportedDate(data, "createdAt", now),
                  ImportedDate(data, "updatedAt", now),
                  ImportedVersion(data)))

----------------------------------------------------------------------------
(* lib/export/index.ts: ExportManager                                      *)

toPascalCase(str) == formatPrismaModelName(str)

\* insert "_" before each capital, drop a leading "_", lower-case
toSnakeCase(str) == toLowerCase(str)

toCamelCase(str) == formatPrismaFieldName(str)

\* column.name.toLowerCase().includes('name')
MentionsName(name) == name \in {"name", "username", "first_name"}

DjangoBaseField(type) ==
    CASE type = "string" -> <<"CharField", <<"max_length=255">> >>
      [] type = "text" -> <<"TextField", <<>> >>
      [] type = "integer" -> <<"IntegerField", <<>> >>
      [] type = "bigint" -> <<"BigIntegerField", <<>> >>
      [] type = "float" -> <<"FloatField", <<>> >>
      [] type = "decimal" -> <<"DecimalField", <<"max_digits=10", "decimal_places=2">> >>
      [] type = "boolean" -> <<"BooleanField", <<>> >>
      [] type = "date" -> <<"DateField", <<>> >>
      [] type \in {"datetime", "timestamp"} -> <<"DateTimeField", <<"auto_now_add=True">> >>
      [] type = "time" -> <<"TimeField", <<>> >>
      [] type = "json" -> <<"JSONField", <<>> >>
      [] type = "uuid" -> <<"UUIDField", <<"primary_key=True", "default=uuid.uuid4", "editable=False">> >>
      [] type = "binary" -> <<"BinaryField", <<>> >>
      [] OTHER -> <<"CharField", <<"max_length=255">> >>

\* Each fieldDef.replace(')', ', x)') appends x to the argument list.
mapToDjangoField(column) ==
    LET base == IF column.primaryKey /\ column.type # "uuid"
                THEN <<"AutoField", <<"primary_key=True">> >>
                ELSE DjangoBaseField(column.type)
        default == IF ~Truthy(column.defaultValue) THEN <<>>
                   ELSE LET v == Val(column.defaultValue)
                        IN IF toLowerCase(v) = "uuid_generate_v4()" THEN <<>>
                           ELSE IF toLowerCase(v) \in {"now", "now()"} THEN <<>>
                           ELSE IF IsNumericLiteral(v) THEN << <<"default", v>> >>
                           ELSE IF toLowerCase(v) \in {"true", "false"} THEN << <<"default", v>> >>
                           ELSE << <<"default", "quoted", v>> >>
    IN [field |-> base[1],
        args |-> [k \in 1..Len(base[2]) |-> <<base[2][k]>>]
                 \o (IF column.unique /\ ~column.primaryKey THEN << <<"unique=True">> >> ELSE <<>>)
                 \o (IF ~column.nullable /\ ~column.primaryKey THEN << <<"blank=False">> >> ELSE <<>>)
                 \o (IF column.nullable /\ ~column.primaryKey
                     THEN << <<"null=True">>, <<"blank=True">> >> ELSE <<>>)
                 \o default]

DjangoModelClass(table) ==
    LET nameField == Find(table.columns, LAMBDA c : MentionsName(toLowerCase(c.name)))
    IN [kind |-> "class",
        name |-> toPascalCase(table.name),
        docstring |-> IF Truthy(table.description) THEN table.description ELSE None,
        fields |-> [j \in 1..Len(table.columns) |->
                       [name |-> toSnakeCase(table.columns[j].name),
                        columnId |-> table.columns[j].id,
                        definition |-> mapToDjangoField(table.columns[j]),
                        comment |-> IF Truthy(table.columns[j].description)
                                    THEN table.columns[j].description ELSE None]],
        str |-> IF IsSome(nameField) THEN <<toSnakeCase(Val(nameField).name)>> ELSE <<"id">>,
        dbTable |-> table.name]

exportToDjango(sch) ==
    << [kind |-> "import"] >>
    \o [i \in 1..Len(sch.tables) |-> DjangoModelClass(sch.tables[i])]

LaravelBaseColumn(column) ==
    CASE column.type = "string" -> <<"string", column.name>>
      [] column.type = "text" -> <<"text", column.name>>
      [] column.type = "integer" ->
            IF column.primaryKey THEN <<"id">> ELSE <<"integer", column.name>>
      [] column.type = "bigint" -> <<"bigInteger", column.name>>
      [] column.type = "float" -> <<"float", column.name>>
      [] column.type = "decimal" -> <<"decimal", column.name, "10", "2">>
      [] column.type = "boolean" -> <<"boolean", column.name>>
      [] column.type = "date" -> <<"date", column.name>>
      [] column.type \in {"datetime", "timestamp"} -> <<"timestamp", column.name>>
      [] column.type = "time" -> <<"time", column.name>>
      [] column.type = "json" -> <<"json", column.name>>
      [] column.type = "uuid" -> <<"uuid", column.name>>
      [] column.type = "binary" -> <<"binary", column.name>>
      [] OTHER -> <<"string", column.name>>

mapToLaravelColumn(column) ==
    LET modifiers ==
            (IF column.nullable THEN << <<"nullable">> >> ELSE <<>>)
            \o (IF column.unique /\ ~column.primaryKey THEN << <<"unique">> >> ELSE <<>>)
        v == Val(column.defaultValue)
    IN IF ~Truthy(column.defaultValue)
       THEN [column |-> LaravelBaseColumn(column), modifiers |-> modifiers]
       ELSE IF toLowerCase(v) = "uuid_generate_v4()"
       THEN [column |-> <<"uuid", column.name>>, modifiers |-> << <<"default", "Str::uuid()">> >>]
       ELSE [column |-> LaravelBaseColumn(column),
             modifiers |-> modifiers \o
                 (IF toLowerCase(v) \in {"now", "now()"} THEN << <<"useCurrent">> >>
                  ELSE IF IsNumericLiteral(v) THEN << <<"default", v>> >>
                  ELSE IF toLowerCase(v) \in {"true", "false"} THEN << <<"default", v>> >>
                  ELSE << <<"default", "quoted", v>> >>)]

exportToLaravel(sch) ==
    << [kind |-> "php"] >>
    \o [i \in 1..Len(sch.tables) |->
           [kind |-> "migration",
            table |-> toSnakeCase(sch.tables[i].name),
            columns |-> [j \in 1..Len(sch.tables[i].columns) |->
                            mapToLaravelColumn(sch.tables[i].columns[j])]]]

TypeORMBaseColumn(column) ==
    LET property == toCamelCase(column.name)
    IN CASE column.type = "string" -> <<"@Column", "varchar", property, "string">>
         [] column.type = "text" -> <<"@Column", "text", property, "string">>
         [] column.type = "integer" ->
               IF column.primaryKey THEN <<"@PrimaryGeneratedColumn", "", "id", "number">>
               ELSE <<"@Column", "int", property, "number">>
         [] column.type = "bigint" -> <<"@Column", "bigint", property, "number">>
         [] column.type = "float" -> <<"@Column", "float", property, "number">>
         [] column.type = "decimal" -> <<"@Column", "decimal", property, "number">>
         [] column.type = "boolean" -> <<"@Column", "boolean", property, "boolean">>
         [] column.type = "date" -> <<"@Column", "date", property, "Date">>
         [] column.type \in {"datetime", "timestamp"} ->
               <<"@CreateDateColumn", "", "createdAt", "Date">>
         [] column.type = "time" -> <<"@Column", "time", property, "Date">>
         [] column.type = "json" -> <<"@Column", "json", property, "any">>
         [] column.type = "uuid" -> <<"@Column", "uuid", property, "string">>
         [] column.type = "binary" -> <<"@Column", "blob", property, "Buffer">>
         [] OTHER -> <<"@Column", "varchar", property, "string">>

\* Each columnDef.replace(')', ', x })') rewrites the first closing parenthesis.
mapToTypeORMColumn(column) ==
    [column |-> TypeORMBaseColumn(column),
     rewrites |->
         (IF ~column.nullable /\ ~column.primaryKey THEN << <<"nullable: false">> >> ELSE <<>>)
         \o (IF column.unique /\ ~column.primaryKey THEN << <<"unique: true">> >> ELSE <<>>)
         \o (IF Truthy(column.defaultValue)
             THEN << <<"default", Val(column.defaultValue)>> >> ELSE <<>>)]

exportToTypeORM(sch) ==
    << [kind |-> "import"] >>
    \o [i \in 1..Len(sch.tables) |->
           [kind |-> "entity",
            name |-> toPascalCase(sch.tables[i].name),
            columns |-> [j \in 1..Len(sch.tables[i].columns) |->
                            mapToTypeORMColumn(sch.tables[i].columns[j])]]]

\* ExportOptions: sqlDialect and includePositions are optional.
ExportOptions(format, sqlDialect, includePositions) ==
    [format |-> format, sqlDialect |-> sqlDialect, includePositions |-> includePositions]

ExportManagerExport(sch, opts, now) ==
    CASE opts.format = "json" ->
            Returned(exportToJSON(sch, IF IsSome(opts.includePositions)
                                       THEN Val(opts.includePositions) ELSE TRUE, now))
      [] opts.format = "sql" ->
            Returned(exportToSQL(sch, IF IsSome(opts.sqlDialect)
                                      THEN Val(opts.sqlDialect) ELSE "postgresql", now))
      [] opts.format = "prisma" -> exportToPrisma(sch)
      [] opts.format = "django" -> Returned(exportToDjango(sch))
      [] opts.format = "laravel" -> Returned(exportToLaravel(sch))
      [] opts.format = "typeorm" -> Returned(exportToTypeORM(sch))
      [] OTHER -> Raised("Error", <<"Unsupported export format: ", opts.format>>)

----------------------------------------------------------------------------
(* hooks/use-schema.ts: the initial state of the store                     *)

InitialStore ==
    [tables |-> <<>>, relationships |-> <<>>, selectedTableId |-> None,
     selectedRelationshipId |-> None, isDirty |-> FALSE]

----------------------------------------------------------------------------
(* hooks/use-canvas-state.ts: the initial state of the canvas              *)

\* contextMenu and highlightedEdgeId are the hook's states; menu is the state
\* of the NodeContextMenu component while it is mounted; timers are the
\* pending setTimeout callbacks, calls the number of timers started and now
\* the time
InitialCanvas ==
    [contextMenu |-> None, menu |-> None, highlightedEdgeId |-> None,
     timers |-> {}, calls |-> 0, now |-> 0]

\* the store, the layout engine and the canvas while an exporter or
\* importer runs
Untouched == UNCHANGED <<store, nextId, layout, canvas>>

----------------------------------------------------------------------------
(* Calls of the exporters                                                  *)

OptionChoices ==
    {ExportOptions("json", None, p) : p \in {None, Some(TRUE), Some(FALSE)}}
    \cup {ExportOptions("sql", d, None) : d \in {None} \cup {Some(x) : x \in SQLDialects}}
    \cup {ExportOptions(f, None, None) : f \in (ExportFormats \ {"json", "sql"}) \cup {"xml", "mongoose"}}

NoImport == [source |-> <<>>]

\* ExportManager.export(schema, options)
Export ==
    /\ exported = NotCalled
    /\ \E opts \in OptionChoices, now \in Clock :
          /\ options' = opts
          /\ exported' = ExportManagerExport(schema, opts, now)
    /\ UNCHANGED <<schema, reimported, content, imported>>
    /\ Untouched

\* ExportManager.import(content, 'json') on the text of a JSON export
ImportJSON ==
    /\ exported.status = "ok"
    /\ options.format = "json"
    /\ reimported = NotCalled
    /\ \E now \in ImportClock : reimported' = importFromJSON(exported.text, now)
    /\ UNCHANGED <<schema, options, exported, content, imported>>
    /\ Untouched

\* exportToSQL(schema, dialect) called directly
ExportSQL ==
    /\ exported = NotCalled
    /\ \E dialect \in SQLDialects, now \in Clock :
          /\ options' = ExportOptions("sql", Some(dialect), None)
          /\ exported' = Returned(exportToSQL(schema, dialect, now))
    /\ UNCHANGED <<schema, reimported, content, imported>>
    /\ Untouched

\* exportToPrisma(schema) called directly
ExportPrisma ==
    /\ exported = NotCalled
    /\ options' = ExportOptions("prisma", None, None)
    /\ exported' = exportToPrisma(schema)
    /\ UNCHANGED <<schema, reimported, content, imported>>
    /\ Untouched

InitExporter(schemas) ==
    /\ schema \in schemas
    /\ options = ExportOptions("", None, None)
    /\ exported = NotCalled
    /\ reimported = NotCalled
    /\ content = <<>>
    /\ imported = NotCalled
    /\ store = InitialStore
    /\ nextId = 0
    /\ layout = NotCalled
    /\ canvas = InitialCanvas

Init == InitExporter(ReferenceSchemas \cup KeySchemas \cup CodecSchemas)
Next == Export \/ ImportJSON
Spec == Init /\ [][Next]_vars

InitSQL == InitExporter(ReferenceSchemas \cup KeySchemas)
NextSQL == ExportSQL \/ ExportPrisma
SpecSQL == InitSQL /\ [][NextSQL]_vars

----------------------------------------------------------------------------
(* Properties of the exporters                                             *)

Resolves(sch, tableId, columnId) ==
    /\ IsSome(TableById(sch, tableId))
    /\ IsSome(ColumnById(Val(TableById(sch, tableId)), columnId))

RelationshipResolves(sch, rel) ==
    /\ Resolves(sch, rel.sourceTableId, rel.sourceColumnId)
    /\ Resolves(sch, rel.targetTableId, rel.targetColumnId)

ForeignKeyResolves(sch, column) ==
    /\ IsSome(column.foreignKey)
    /\ Resolves(sch, Val(column.foreignKey).tableId, Val(column.foreignKey).columnId)

SqlExported == exported.status = "ok" /\ options.format = "sql"
PrismaCalled == exported.status # "none" /\ options.format = "prisma"

SqlDialectUsed == IF IsSome(options.sqlDialect) THEN Val(options.sqlDialect) ELSE "postgresql"

\* the positions of the ALTER TABLE ... FOREIGN KEY statements of the SQL
\* text that lead from column (st, sc) to column (tt, tc), by name
ForeignKeyStatements(text, st, sc, tt, tc) ==
    {k \in 1..Len(text) :
        /\ text[k].kind = "ALTER TABLE"
        /\ text[k].table.name = st /\ text[k].column.name = sc
        /\ text[k].refTable.name = tt /\ text[k].refColumn.name = tc}

\* those among them that a relationship (rather than a column) produced
RelationshipStatements(text, st, sc, tt, tc) ==
    {k \in ForeignKeyStatements(text, st, sc, tt, tc) : text[k].constraint.quoted.name[1] = "rel"}

TableOf(sch, id) == Val(TableById(sch, id))
ColumnOf(sch, tableId, columnId) == Val(ColumnById(TableOf(sch, tableId), columnId))

\* C1: ExportManager.export raises if and only if the format is outside the
\* six known ones; every known format returns text for every schema, and the
\* error raised for another format names that format.
C1_ExportRaisesOnlyForUnknownFormat ==
    exported.status # "none" =>
        /\ (exported.status = "error") <=> (options.format \notin ExportFormats)
        /\ exported.status = "error" =>
               exported.message = <<"Unsupported export format: ", options.format>>

\* C2: importFromJSON(exportToJSON(S, includePositions = true)) equals S in
\* name, description, version, timestamps, tables and relationships.
C2_JsonRoundTrip ==
    (reimported.status # "none" /\ options.includePositions # Some(FALSE)) =>
        /\ reimported.status = "ok"
        /\ reimported.text.name = schema.name
        /\ reimported.text.description = schema.description
        /\ reimported.text.version = schema.version
        /\ reimported.text.createdAt = schema.createdAt
        /\ reimported.text.updatedAt = schema.updatedAt
        /\ reimported.text.tables = schema.tables
        /\ reimported.text.relationships = schema.relationships

\* the source column of the relationship declares a foreign key to the
\* relationship's own target
CoveredByForeignKey(sch, rel) ==
    LET fk == ColumnOf(sch, rel.sourceTableId, rel.sourceColumnId).foreignKey
    IN IsSome(fk) /\ Val(fk).tableId = rel.targetTableId /\ Val(fk).columnId = rel.targetColumnId

SameEnds(a, b) ==
    /\ a.sourceTableId = b.sourceTableId /\ a.sourceColumnId = b.sourceColumnId
    /\ a.targetTableId = b.targetTableId /\ a.targetColumnId = b.targetColumnId

\* C7: in SQL export every relationship whose four references resolve and
\* whose source column declares no foreign key to the relationship's target
\* is rendered as exactly one ALTER TABLE ... FOREIGN KEY statement from its
\* source column to its target column.
C7_UncoveredRelationshipRendered ==
    SqlExported =>
        \A r \in 1..Len(schema.relationships) :
            LET rel == schema.relationships[r]
            IN (RelationshipResolves(schema, rel) /\ ~CoveredByForeignKey(schema, rel)) =>
                   Cardinality(RelationshipStatements(exported.text,
                       TableOf(schema, rel.sourceTableId).name,
                       ColumnOf(schema, rel.sourceTableId, rel.sourceColumnId).name,
                       TableOf(schema, rel.targetTableId).name,
                       ColumnOf(schema, rel.targetTableId, rel.targetColumnId).name))
                   = Cardinality({q \in 1..Len(schema.relationships) :
                                     SameEnds(schema.relationships[q], rel)})

\* column j of table i carries a resolvable foreign key and some relationship
\* has the same source column and the same target
DoublyRepresented(sch, i, j) ==
    /\ ForeignKeyResolves(sch, sch.tables[i].columns[j])
    /\ \E r \in 1..Len(sch.relationships) :
          LET rel == sch.relationships[r]
              fk == Val(sch.tables[i].columns[j].foreignKey)
          IN /\ rel.sourceTableId = sch.tables[i].id
             /\ rel.sourceColumnId = sch.tables[i].columns[j].id
             /\ rel.targetTableId = fk.tableId
             /\ rel.targetColumnId = fk.columnId

\* C8: a connection represented both by a resolvable Column.foreignKey and by
\* a Relationship with the same source column and target yields exactly one
\* FOREIGN KEY statement in SQL export.
C8_NoDoubleForeignKey ==
    SqlExported =>
        \A i \in 1..Len(schema.tables) : \A j \in 1..Len(schema.tables[i].columns) :
            DoublyRepresented(schema, i, j) =>
                LET fk == Val(schema.tables[i].columns[j].foreignKey)
                IN Cardinality(ForeignKeyStatements(exported.text,
                       schema.tables[i].name, schema.tables[i].columns[j].name,
                       TableOf(schema, fk.tableId).name,
                       ColumnOf(schema, fk.tableId, fk.columnId).name)) = 1

C8_Witness ==
    /\ SqlExported
    /\ \E i \in 1..Len(schema.tables) : \E j \in 1..Len(schema.tables[i].columns) :
          DoublyRepresented(schema, i, j)

\* the foreign-key columns of a table, and the relationships of a schema,
\* whose references all resolve
ResolvedForeignKeys(sch, table) ==
    {j \in 1..Len(table.columns) : ForeignKeyResolves(sch, table.columns[j])}

ResolvedRelationships(sch) ==
    {r \in 1..Len(sch.relationships) : RelationshipResolves(sch, sch.relationships[r])}

HasDanglingReference(sch) ==
    \/ \E i \in 1..Len(sch.tables) : \E j \in 1..Len(sch.tables[i].columns) :
          /\ IsSome(sch.tables[i].columns[j].foreignKey)
          /\ ~ForeignKeyResolves(sch, sch.tables[i].columns[j])
    \/ \E r \in 1..Len(sch.relationships) : ~RelationshipResolves(sch, sch.relationships[r])

\* SQL text: one CREATE TABLE per table; no more column-level constraints per
\* table than resolvable foreign keys, no more relationship-level constraints
\* than resolvable relationships.
SqlSkipsDangling(sch, text) ==
    /\ \A i \in 1..Len(sch.tables) :
          /\ \E k \in 1..Len(text) :
                text[k].kind = "CREATE TABLE" /\ text[k].table.name = sch.tables[i].name
          /\ Cardinality({k \in 1..Len(text) :
                 /\ text[k].kind = "ALTER TABLE"
                 /\ text[k].constraint.quoted.name[1] = "fk"
                 /\ text[k].table.name = sch.tables[i].name})
             <= Cardinality(ResolvedForeignKeys(sch, sch.tables[i]))
    /\ Cardinality({k \in 1..Len(text) :
           text[k].kind = "ALTER TABLE" /\ text[k].constraint.quoted.name[1] = "rel"})
       <= Cardinality(ResolvedRelationships(sch))

PrismaModels(text) == SelectSeq(text, LAMBDA l : l.kind = "model")

LinesOfKind(body, kind) == {k \in 1..Len(body) : body[k].kind = kind}

\* Prisma text: one model per table; no more relation fields per model than
\* resolvable foreign keys, no more reverse relation fields than resolvable
\* relationships.
PrismaSkipsDangling(sch, text) ==
    /\ Len(PrismaModels(text)) = Len(sch.tables)
    /\ \A i \in 1..Len(sch.tables) :
          /\ PrismaModels(text)[i].name = formatPrismaModelName(sch.tables[i].name)
          /\ Cardinality(LinesOfKind(PrismaModels(text)[i].body, "relation"))
             <= Cardinality(ResolvedForeignKeys(sch, sch.tables[i]))
          /\ Cardinality(LinesOfKind(PrismaModels(text)[i].body, "reverse"))
             <= Cardinality({r \in ResolvedRelationships(sch) :
                                sch.relationships[r].targetTableId = sch.tables[i].id})

\* C9: with a dangling Column.foreignKey or Relationship in the schema, the
\* SQL and Prisma exporters emit no constraint and no relation field for the
\* dangling reference and still emit the definition of every table.
C9_DanglingReferenceSkipped ==
    (exported.status # "none" /\ HasDanglingReference(schema)) =>
        /\ options.format = "sql" => SqlSkipsDangling(schema, exported.text)
        /\ options.format = "prisma" =>
               exported.status = "ok" /\ PrismaSkipsDangling(schema, exported.text)

CreateTableOf(text, name) ==
    text[CHOOSE k \in 1..Len(text) : text[k].kind = "CREATE TABLE" /\ text[k].table.name = name]

PrimaryKeyColumns(table) == Filter(table.columns, IsPrimaryKey)

\* C10: for every dialect a table with two or more primaryKey columns is
\* rendered with exactly one table-level PRIMARY KEY constraint listing those
\* columns in column order and with no inline PRIMARY KEY on any column.
C10_CompositePrimaryKey ==
    SqlExported =>
        \A i \in 1..Len(schema.tables) :
            Len(PrimaryKeyColumns(schema.tables[i])) >= 2 =>
                LET create == CreateTableOf(exported.text, schema.tables[i].name)
                    keys == PrimaryKeyColumns(schema.tables[i])
                IN /\ Len(create.constraints) = 1
                   /\ create.constraints[1].kind = "PRIMARY KEY"
                   /\ create.constraints[1].columns =
                          [k \in 1..Len(keys) |-> formatColumnName(keys[k].name, SqlDialectUsed)]
                   /\ \A j \in 1..Len(create.columns) : ~create.columns[j].primaryKey

C10_Witness ==
    /\ SqlExported
    /\ SqlDialectUsed = "sqlserver"
    /\ \E i \in 1..Len(schema.tables) : Len(PrimaryKeyColumns(schema.tables[i])) >= 2

StatementsOfKind(text, kind) == {k \in 1..Len(text) : text[k].kind = kind}

\* the table names of the CREATE TABLE statements, in the order of the text
CreatedNames(text) ==
    LET creates == Filter(text, LAMBDA st : st.kind = "CREATE TABLE")
    IN [k \in 1..Len(creates) |-> creates[k].table.name]

NamesOf(tables) == [i \in 1..Len(tables) |-> tables[i].name]

----------------------------------------------------------------------------
(* lib/import/django-importer.ts                                           *)
(*                                                                         *)
(* Python source text is modelled as its sequence of lines.  A line holds  *)
(* its indentation and the tokens the importer's regular expressions look  *)
(* at:                                                                     *)
(*   class      class <name>(<type>):                                      *)
(*   meta       class Meta:                                                *)
(*   db_table   db_table = '<name>'                                        *)
(*   field      <name> = models.<type>(<args>)    closed: ")" is on the    *)
(*              line; an open line ends after "("                          *)
(*   args       <args>,          continuation line of an open call         *)
(*   close      )                                                          *)
(*   def        def <name>(self):                                          *)
(*   stmt       another statement, e.g. return self.title                  *)
(*   docstring  """..."""                                                  *)
(*   import, comment, blank                                                *)
(* An argument is key=value, or a positional value with key "".            *)

Arg(key, value) == [key |-> key, value |-> value]

Line(indent, kind, name, type, args, closed) ==
    [indent |-> indent, kind |-> kind, name |-> name, type |-> type,
     args |-> args, closed |-> closed]

Min(S) == CHOOSE x \in S : \A y \in S : x <= y
Max(S) == CHOOSE x \in S : \A y \in S : x >= y

\* the text of an argument up to its first comma: [^'"\s,\)]+ stops there
ArgText(arg) ==
    CASE arg.key = "" -> arg.value
      [] arg = Arg("on_delete", "models.CASCADE") -> "on_delete=models.CASCADE"
      [] arg = Arg("on_delete", "models.SET_NULL") -> "on_delete=models.SET_NULL"
      [] arg = Arg("to", "User") -> "to="
      [] OTHER -> arg.key

\* models\.(\w+) on an argument value
ModelsAttribute(value) ==
    CASE value = "models.CASCADE" -> Some("CASCADE")
      [] value = "models.SET_NULL" -> Some("SET_NULL")
      [] value = "models.PROTECT" -> Some("PROTECT")
      [] value = "models.RESTRICT" -> Some("RESTRICT")
      [] value = "models.DO_NOTHING" -> Some("DO_NOTHING")
      [] value = "models.SET_DEFAULT" -> Some("SET_DEFAULT")
      [] OTHER -> None

DjangoField(name, type, nullable, primaryKey, unique, defaultValue, foreignKey, oneToOneField, manyToManyField, description) ==
    [name |-> name, type |-> type, nullable |-> nullable, primaryKey |-> primaryKey,
     unique |-> unique, defaultValue |-> defaultValue, foreignKey |-> foreignKey,
     oneToOneField |-> oneToOneField, manyToManyField |-> manyToManyField,
     description |-> description]

DjangoModel(name, tableName, fields, description) ==
    [name |-> name, tableName |-> tableName, fields |-> fields,
     description |-> description]

\* whole-line comments and blank lines are dropped, indentation is kept
cleanContent(text) == Filter(text, LAMBDA l : l.kind \notin {"comment", "blank"})

\* trimmedLine.startsWith('class ') || trimmedLine.startsWith('def ')
StartsClassOrDef(line) == line.kind \in {"class", "meta", "def"}

\* the first later line that opens a class or function at the class line's
\* indentation or less; the end of the text if there is none
findClassEnd(text, classLine) ==
    LET ends == {j \in (classLine + 1)..Len(text) :
                    /\ StartsClassOrDef(text[j])
                    /\ text[j].indent <= text[classLine].indent}
    IN IF ends = {} THEN Len(text) + 1 ELSE Min(ends)

ClassContent(text, classLine) ==
    SubSeq(text, classLine + 1, findClassEnd(text, classLine) - 1)

\* the words of the checked texts that hold "class" or a capital "Z"
HoldsClassOrZ(word) == word \in {"classroom", "TimeZoneField", "Zone"}

\* the lookahead (?=class|\Z): without the u flag \Z is the letter Z
MatchesClassOrZ(line) ==
    \/ line.kind \in {"class", "meta"}
    \/ HoldsClassOrZ(line.name)
    \/ HoldsClassOrZ(line.type)
    \/ \E a \in 1..Len(line.args) : HoldsClassOrZ(line.args[a].value)

\* /class\s+Meta\s*:([\s\S]*?)(?=class|\Z)/: the lines between the first
\* "class Meta:" that has a later "class" or "Z" and the first such place
MetaMatch(classContent) ==
    LET after(m) == {e \in (m + 1)..Len(classContent) : MatchesClassOrZ(classContent[e])}
        metas == {m \in 1..Len(classContent) :
                     classContent[m].kind = "meta" /\ after(m) # {}}
    IN IF metas = {} THEN None
       ELSE Some(SubSeq(classContent, Min(metas) + 1, Min(after(Min(metas))) - 1))

\* /db_table\s*=\s*['"`]([^'"`]+)['"`]/ on the Meta content
DbTableMatch(metaContent) ==
    LET line == Find(metaContent, LAMBDA l : l.kind = "db_table")
    IN IF IsSome(line) THEN Some(Val(line).name) ELSE None

ModelTableName(classContent) ==
    IF IsSome(MetaMatch(classContent))
    THEN DbTableMatch(Val(MetaMatch(classContent)))
    ELSE None

\* /class\s+Meta.*?"""([\s\S]*?)"""/: "." does not cross a line end, so the
\* quotes have to stand on the "class Meta:" line itself, which holds none
ModelDescription(classContent) == None

mapDjangoType(djangoType) ==
    CASE djangoType = "CharField" -> "string"
      [] djangoType = "TextField" -> "text"
      [] djangoType = "IntegerField" -> "integer"
      [] djangoType = "BigIntegerField" -> "bigint"
      [] djangoType = "SmallIntegerField" -> "integer"
      [] djangoType = "AutoField" -> "integer"
      [] djangoType = "BigAutoField" -> "bigint"
      [] djangoType = "FloatField" -> "float"
      [] djangoType = "DecimalField" -> "decimal"
      [] djangoType = "BooleanField" -> "boolean"
      [] djangoType = "DateField" -> "date"
      [] djangoType = "DateTimeField" -> "datetime"
      [] djangoType = "TimeField" -> "time"
      [] djangoType = "JSONField" -> "json"
      [] djangoType = "UUIDField" -> "uuid"
      [] djangoType = "BinaryField" -> "binary"
      [] djangoType = "EmailField" -> "string"
      [] djangoType = "URLField" -> "string"
      [] djangoType = "SlugField" -> "string"
      [] djangoType = "PositiveIntegerField" -> "integer"
      [] djangoType = "PositiveSmallIntegerField" -> "integer"
      [] djangoType = "PositiveBigIntegerField" -> "bigint"
      [] djangoType = "ForeignKey" -> "integer"
      [] djangoType = "OneToOneField" -> "integer"
      [] djangoType = "ManyToManyField" -> "json"
      [] OTHER -> "string"

\* cleanArgs.includes('<key>=<value>')
HasArg(args, key, value) == \E a \in 1..Len(args) : args[a] = Arg(key, value)

\* the first capture of a key\s*=\s*... pattern
ArgValue(args, key) ==
    LET arg == Find(args, LAMBDA a : a.key = key)
    IN IF IsSome(arg) THEN Some(Val(arg).value) ELSE None

\* /^['"`]?([^'"\s,\)]+)['"`]?/: the first argument, quotes dropped
RelatedModelMatch(args) == IF args = <<>> THEN None ELSE Some(ArgText(args[1]))

\* /on_delete\s*=\s*models\.(\w+)/
OnDeleteMatch(args) ==
    IF IsSome(ArgValue(args, "on_delete"))
    THEN ModelsAttribute(Val(ArgValue(args, "on_delete")))
    ELSE None

KeepsNullable(args) == HasArg(args, "null", "True") \/ HasArg(args, "blank", "True")

MentionsAutoField(args) ==
    \E a \in 1..Len(args) : args[a].value \in {"models.AutoField", "models.BigAutoField"}

parseFieldArguments(args, field, fieldType) ==
    LET related == RelatedModelMatch(args)
        relation == [model |-> Val(related), field |-> "id", onDelete |-> OnDeleteMatch(args)]
        isForeignKey == fieldType = "ForeignKey" /\ IsSome(related)
        isOneToOne == fieldType = "OneToOneField" /\ IsSome(related)
        isManyToMany == fieldType = "ManyToManyField" /\ IsSome(related)
        nullable1 == IF HasArg(args, "null", "True") THEN TRUE
                     ELSE IF HasArg(args, "null", "False") THEN FALSE
                     ELSE field.nullable
        nullable2 == IF HasArg(args, "blank", "True") THEN TRUE ELSE nullable1
        nullable3 == IF (isForeignKey \/ isOneToOne) /\ ~KeepsNullable(args)
                     THEN FALSE ELSE nullable2
        isKey == HasArg(args, "primary_key", "True") \/ MentionsAutoField(args)
        type1 == IF isManyToMany THEN "json" ELSE field.type
        type2 == IF IsSome(ArgValue(args, "max_length")) THEN "string" ELSE type1
        type3 == IF MentionsAutoField(args) THEN "integer" ELSE type2
    IN DjangoField(field.name, type3,
                   IF isKey THEN FALSE ELSE nullable3,
                   field.primaryKey \/ isKey,
                   field.unique \/ HasArg(args, "unique", "True"),
                   IF IsSome(ArgValue(args, "default")) THEN ArgValue(args, "default")
                   ELSE field.defaultValue,
                   IF isForeignKey THEN Some(relation) ELSE field.foreignKey,
                   IF isOneToOne THEN Some(relation) ELSE field.oneToOneField,
                   IF isManyToMany
                   THEN Some([model |-> Val(related), through |-> ArgValue(args, "through")])
                   ELSE field.manyToManyField,
                   field.description)

\* /^(\w+)\s*=\s*models\.(\w+)(?:\((.*)\))?/ on a trimmed line.  The
\* parenthesised group is optional: on a line that opens a call and closes
\* it later, and on a continuation line key=models.X, the match stops after
\* the type and the arguments are ''.
FieldMatch(line) ==
    CASE line.kind = "field" ->
            Some([name |-> line.name, type |-> line.type,
                  args |-> IF line.closed THEN line.args ELSE <<>>])
      [] line.kind = "args" /\ line.args # <<>>
            /\ Head(line.args).key # ""
            /\ IsSome(ModelsAttribute(Head(line.args).value)) ->
            Some([name |-> Head(line.args).key,
                  type |-> Val(ModelsAttribute(Head(line.args).value)),
                  args |-> <<>>])
      [] OTHER -> None

\* The multi-line branch runs only on a line FieldMatch rejects and tests
\* /^(\w+)\s*=\s*models\.(\w+)\s*\((.*)\)/ on the text that starts with that
\* line; its prefix is FieldMatch's pattern, so it finds nothing.
MultiFieldMatch(line) == None

\* the special cases after parseFieldArguments
FinishField(field, fieldType) ==
    IF fieldType \in {"AutoField", "BigAutoField"}
    THEN [field EXCEPT !.primaryKey = TRUE, !.nullable = FALSE, !.type = "integer"]
    ELSE IF fieldType = "ForeignKey" /\ IsSome(field.foreignKey)
    THEN [field EXCEPT !.type = "integer"]
    ELSE IF fieldType = "OneToOneField" /\ IsSome(field.oneToOneField)
    THEN [field EXCEPT !.type = "integer"]
    ELSE IF fieldType = "ManyToManyField" /\ IsSome(field.manyToManyField)
    THEN [field EXCEPT !.type = "json"]
    ELSE field

ParsedField(m) ==
    FinishField(
        parseFieldArguments(m.args,
            DjangoField(m.name, mapDjangoType(m.type), TRUE, FALSE, FALSE,
                        None, None, None, None, None),
            m.type),
        m.type)

\* the fields one line of the class content contributes
FieldsOfLine(line) ==
    IF line.kind \in {"class", "meta", "def", "docstring"} THEN <<>>
    ELSE IF IsSome(FieldMatch(line))
    THEN IF Val(FieldMatch(line)).name = "Meta" \/ Val(FieldMatch(line)).type = "Meta"
         THEN <<>>
         ELSE <<ParsedField(Val(FieldMatch(line)))>>
    ELSE IF IsSome(MultiFieldMatch(line))
    THEN <<ParsedField(Val(MultiFieldMatch(line)))>>
    ELSE <<>>

parseFields(classContent) ==
    Concat([i \in 1..Len(classContent) |-> FieldsOfLine(classContent[i])])

idField ==
    DjangoField("id", "integer", FALSE, TRUE, TRUE, None, None, None, None,
                Some("Auto-generated primary key (Django default)"))

WithPrimaryKey_Appended(fields) ==
    IF \E f \in 1..Len(fields) : fields[f].primaryKey
    THEN fields
    ELSE fields \o <<idField>>

\* the id field is put first when no parsed field is a primary key
WithPrimaryKey(fields) ==
    IF \E f \in 1..Len(fields) : fields[f].primaryKey
    THEN fields
    ELSE <<idField>> \o fields

IncludesModelsModel_Any(inheritance) == TRUE

\* inheritance.includes('models.Model')
IncludesModelsModel(inheritance) ==
    inheritance \in {"models.Model", "TimeStamped, models.Model"}

\* the lines /class\s+(\w+)\s*\((.*?)\):/ matches whose bases hold models.Model
ModelClassLines(text) ==
    Filter([i \in 1..Len(text) |-> i],
           LAMBDA i : text[i].kind = "class" /\ IncludesModelsModel(text[i].type))

ParsedModel(text, classLine) ==
    LET classContent == ClassContent(text, classLine)
    IN DjangoModel(text[classLine].name,
                   ModelTableName(classContent),
                   WithPrimaryKey(parseFields(classContent)),
                   ModelDescription(classContent))

ParsedModels(text) ==
    [k \in 1..Len(ModelClassLines(text)) |-> ParsedModel(text, ModelClassLines(text)[k])]

\* "_" before each capital, a leading "_" dropped, lower-cased
snakeCase(str) ==
    CASE str = "User" -> "user"
      [] str = "Post" -> "post"
      [] str = "Editor" -> "editor"
      [] str = "BlogPost" -> "blog_post"
      [] OTHER -> toLowerCase(str)

\* split at "_", " " and "-", capitalise each word, join
pascalCase(str) ==
    CASE str = "user" -> "User"
      [] str = "post" -> "Post"
      [] str = "auth_user" -> "AuthUser"
      [] str = "blog_posts" -> "BlogPosts"
      [] OTHER -> str

mapDjangoOnDelete(onDelete) ==
    IF ~Truthy(onDelete) THEN None
    ELSE CASE Val(onDelete) = "CASCADE" -> Some("CASCADE")
           [] Val(onDelete) = "SET_NULL" -> Some("SET NULL")
           [] Val(onDelete) = "PROTECT" -> Some("RESTRICT")
           [] Val(onDelete) = "RESTRICT" -> Some("RESTRICT")
           [] Val(onDelete) = "DO_NOTHING" -> Some("NO ACTION")
           [] OTHER -> None

\* model.tableName || snakeCase(model.name)
TableNameOfModel(model) ==
    IF Truthy(model.tableName) THEN Val(model.tableName) ELSE snakeCase(model.name)

\* modelLookup[name]: the last model of that name
modelLookup(models, name) ==
    LET found == {k \in 1..Len(models) : models[k].name = name}
    IN IF found = {} THEN None ELSE Some(models[Max(found)])

\* tableToModelLookup[tableName]: the last model of that table name
tableToModelLookup(models, tableName) ==
    LET found == {k \in 1..Len(models) : TableNameOfModel(models[k]) = tableName}
    IN IF found = {} THEN None ELSE Some(models[Max(found)])

\* the value of columnCounter when the first field of model k is reached
RECURSIVE ColumnCounter(_, _)
ColumnCounter(models, k) ==
    IF k = 1 THEN 0 ELSE ColumnCounter(models, k - 1) + Len(models[k - 1].fields)

\* the foreignKey a field's column starts the second pass with
PendingForeignKey(field) ==
    IF IsSome(field.foreignKey)
    THEN Some(ForeignKey("", <<>>,
                         IF IsSome(mapDjangoOnDelete(Val(field.foreignKey).onDelete))
                         THEN mapDjangoOnDelete(Val(field.foreignKey).onDelete)
                         ELSE Some("CASCADE"),
                         Some("CASCADE")))
    ELSE IF IsSome(field.oneToOneField)
    THEN Some(ForeignKey("", <<>>,
                         IF IsSome(mapDjangoOnDelete(Val(field.oneToOneField).onDelete))
                         THEN mapDjangoOnDelete(Val(field.oneToOneField).onDelete)
                         ELSE Some("CASCADE"),
                         Some("CASCADE")))
    ELSE None

\* first pass: the table of model k (index k - 1 in the code)
FirstPassTable(models, k, importId) ==
    LET tableName == TableNameOfModel(models[k])
        fields == models[k].fields
    IN Table(tableName, tableName,
             [x |-> 100 + ((k - 1) % 3) * 300, y |-> 100 + ((k - 1) \div 3) * 250],
             [f \in 1..Len(fields) |->
                 Column(<<tableName, fields[f].name, importId,
                          ColumnCounter(models, k) + f - 1>>,
                        fields[f].name, fields[f].type, fields[f].nullable,
                        fields[f].primaryKey, fields[f].unique,
                        fields[f].defaultValue, PendingForeignKey(fields[f]),
                        fields[f].description)],
             models[k].description)

\* the Django model of a table: by table name, else by its pascal-cased name
ModelOfTable(models, table) ==
    IF IsSome(tableToModelLookup(models, table.name))
    THEN tableToModelLookup(models, table.name)
    ELSE modelLookup(models, pascalCase(table.name))

\* the table a related model name leads to
RelatedTable(models, tables, relatedModelName) ==
    LET relatedDjangoModel == modelLookup(models, relatedModelName)
    IN IF IsSome(relatedDjangoModel)
       THEN Find(tables, LAMBDA t : t.name = TableNameOfModel(Val(relatedDjangoModel)))
       ELSE None

TargetColumn_First(targetTable) ==
    IF targetTable.columns = <<>> THEN None ELSE Some(targetTable.columns[1])

\* the first primary-key column, else the column named id, else the first
TargetColumn(targetTable) ==
    IF IsSome(Find(targetTable.columns, LAMBDA c : c.primaryKey))
    THEN Find(targetTable.columns, LAMBDA c : c.primaryKey)
    ELSE IF IsSome(Find(targetTable.columns, LAMBDA c : c.name = "id"))
    THEN Find(targetTable.columns, LAMBDA c : c.name = "id")
    ELSE IF targetTable.columns = <<>> THEN None
    ELSE Some(targetTable.columns[1])

\* second pass on one column: the field, target table and target column the
\* column resolves to, if every lookup on the way succeeds
ResolvedReference(models, tables, table, column) ==
    LET djangoModel == ModelOfTable(models, table)
        djangoField == IF IsSome(djangoModel)
                       THEN Find(Val(djangoModel).fields, LAMBDA f : f.name = column.name)
                       ELSE None
        relationship == IF ~IsSome(djangoField) THEN None
                        ELSE IF IsSome(Val(djangoField).foreignKey)
                        THEN Val(djangoField).foreignKey
                        ELSE Val(djangoField).oneToOneField
        targetTable == IF IsSome(relationship)
                       THEN RelatedTable(models, tables, Val(relationship).model)
                       ELSE None
        targetColumn == IF IsSome(targetTable) THEN TargetColumn(Val(targetTable)) ELSE None
    IN IF IsSome(column.foreignKey) /\ Val(column.foreignKey).tableId = ""
          /\ IsSome(targetColumn)
       THEN Some([field |-> Val(djangoField), table |-> Val(targetTable),
                  column |-> Val(targetColumn)])
       ELSE None

SecondPassColumn(models, tables, table, column) ==
    LET resolved == ResolvedReference(models, tables, table, column)
    IN IF IsSome(resolved)
       THEN [column EXCEPT !.foreignKey =
                Some([Val(column.foreignKey) EXCEPT
                         !.tableId = Val(resolved).table.id,
                         !.columnId = Val(resolved).column.id])]
       ELSE column

SecondPassTable(models, tables, table) ==
    [table EXCEPT !.columns =
        [c \in 1..Len(table.columns) |->
            SecondPassColumn(models, tables, table, table.columns[c])]]

SecondPassRelationship(models, tables, table, column) ==
    LET resolved == ResolvedReference(models, tables, table, column)
    IN IF IsSome(resolved)
       THEN << Relationship(
                  <<"rel", table.id, column.name, Val(resolved).table.id,
                    Val(resolved).column.name>>,
                  table.id, column.id,
                  Val(resolved).table.id, Val(resolved).column.id,
                  IF IsSome(Val(resolved).field.oneToOneField)
                  THEN "one-to-one" ELSE "many-to-one",
                  None, Val(column.foreignKey).onDelete, Some("CASCADE")) >>
       ELSE <<>>

\* third pass on one field: a ManyToManyField whose model resolves
ManyToManyRelationship(models, tables, table, djangoField) ==
    LET targetTable == IF IsSome(djangoField.manyToManyField)
                       THEN RelatedTable(models, tables, Val(djangoField.manyToManyField).model)
                       ELSE None
    IN IF IsSome(targetTable)
       THEN << Relationship(
                  <<"m2m", table.id, Val(targetTable).id, djangoField.name>>,
                  table.id, <<>>, Val(targetTable).id, <<>>,
                  "many-to-many", Some(djangoField.name), None, None) >>
       ELSE <<>>

ManyToManyOfTable(models, tables, table) ==
    LET djangoModel == tableToModelLookup(models, table.name)
    IN IF IsSome(djangoModel)
       THEN Concat([f \in 1..Len(Val(djangoModel).fields) |->
                       ManyToManyRelationship(models, tables, table, Val(djangoModel).fields[f])])
       ELSE <<>>

convertDjangoToSchema(models, now) ==
    LET tables == [k \in 1..Len(models) |-> FirstPassTable(models, k, now.ms)]
    IN SchemaRec(<<"imported", now.ms>>, "Imported Django Schema",
                 Some("Schema imported from Django models"),
                 [t \in 1..Len(tables) |-> SecondPassTable(models, tables, tables[t])],
                 Concat([t \in 1..Len(tables) |->
                            Concat([c \in 1..Len(tables[t].columns) |->
                                       SecondPassRelationship(models, tables, tables[t],
                                                              tables[t].columns[c])])])
                 \o Concat([t \in 1..Len(tables) |-> ManyToManyOfTable(models, tables, tables[t])]),
                 now, now, [number |-> 1])

parseDjangoModels(text, now) ==
    convertDjangoToSchema(ParsedModels(cleanContent(text)), now)

\* validateDjangoModels: the errors it reports.  The line walk of its try
\* block only reads indentation and adds no error.
validateDjangoModels(text) ==
    (IF \E i \in 1..Len(text) : text[i].name = "from django.db import models"
     THEN <<>>
     ELSE << "Missing required import: from django.db import models" >>)
    \o (IF \E i \in 1..Len(text) :
               text[i].kind = "class" /\ IncludesModelsModel(text[i].type)
        THEN <<>>
        ELSE << "No Django models found. Models must inherit from models.Model" >>)

----------------------------------------------------------------------------
(* Input family for the Django importer: a file of up to two classes.      *)
(* User is the class references point to; Post declares up to MaxFields    *)
(* fields, each written on one line or split over several, and refers to   *)
(* User, to itself and to a class the file does not declare.  Either class *)
(* carries its Meta class first in the body, last in the body, or not at   *)
(* all, and the classes come in either order, so that Meta is also the     *)
(* last statement of the file.  A text may also hold two classes of the    *)
(* same name, lack the import line, or hold no class at all.               *)

MaxFields == 1

FieldDecl(name, type, args) == [name |-> name, type |-> type, args |-> args]

Username == FieldDecl("username", "CharField", <<Arg("max_length", "150"), Arg("unique", "True")>>)
Code == FieldDecl("code", "CharField", <<Arg("max_length", "10"), Arg("primary_key", "True")>>)
Uid == FieldDecl("uid", "AutoField", <<Arg("primary_key", "True")>>)

PostFieldDecls ==
    {FieldDecl("title", "CharField", <<Arg("max_length", "200")>>),
     FieldDecl("slug", "SlugField", <<Arg("unique", "True")>>),
     FieldDecl("views", "IntegerField", <<Arg("default", "0")>>),
     FieldDecl("classroom", "CharField", <<Arg("max_length", "20")>>),
     Code,
     FieldDecl("uid", "BigAutoField", <<Arg("primary_key", "True")>>),
     FieldDecl("author", "ForeignKey", <<Arg("", "User"), Arg("on_delete", "models.CASCADE")>>),
     FieldDecl("reviewer", "ForeignKey",
               <<Arg("", "User"), Arg("on_delete", "models.SET_NULL"), Arg("null", "True")>>),
     FieldDecl("profile", "OneToOneField", <<Arg("", "User"), Arg("on_delete", "models.PROTECT")>>),
     FieldDecl("editor", "ForeignKey", <<Arg("", "Editor"), Arg("on_delete", "models.CASCADE")>>),
     FieldDecl("parent", "ForeignKey",
               <<Arg("", "Post"), Arg("on_delete", "models.CASCADE"), Arg("blank", "True")>>),
     FieldDecl("tags", "ManyToManyField", <<Arg("", "User")>>)}

\* a declaration on one line, or split with one argument per line
RenderField(decl, split) ==
    IF ~split
    THEN << Line(4, "field", decl.name, decl.type, decl.args, TRUE) >>
    ELSE << Line(4, "field", decl.name, decl.type, <<>>, FALSE) >>
         \o [a \in 1..Len(decl.args) |-> Line(8, "args", "", "", <<decl.args[a]>>, FALSE)]
         \o << Line(4, "close", "", "", <<>>, TRUE) >>

RenderMeta(dbTable) ==
    << Line(4, "meta", "Meta", "", <<>>, TRUE),
       Line(8, "db_table", dbTable, "", <<>>, TRUE) >>

RenderClass(name, bases, doc, fields, methods, meta, dbTable) ==
    << Line(0, "class", name, bases, <<>>, TRUE) >>
    \o doc
    \o (IF meta = "first" THEN RenderMeta(dbTable) ELSE <<>>)
    \o fields
    \o methods
    \o (IF meta = "last" THEN RenderMeta(dbTable) ELSE <<>>)

MetaPlaces == {"none", "first", "last"}

UserClasses ==
    {RenderClass("User", "models.Model",
                 << Line(4, "docstring", "User account information", "", <<>>, TRUE) >>,
                 Concat([f \in 1..Len(fields) |-> RenderField(fields[f], FALSE)]),
                 <<>>, meta, "auth_user") :
        fields \in {<<>>, <<Username>>, <<Username, Code>>, <<Uid>>}, meta \in MetaPlaces}
    \cup {RenderClass("User", "object", <<>>, <<>>, <<>>, "none", "")}

PostFields ==
    {fields \in SeqsUpTo(PostFieldDecls \X BOOLEAN, MaxFields) :
        \A a, b \in 1..Len(fields) : a # b => fields[a][1].name # fields[b][1].name}

PostClasses ==
    {RenderClass("Post", "models.Model",
                 << Line(4, "comment", "fields", "", <<>>, TRUE) >>,
                 Concat([f \in 1..Len(fields) |-> RenderField(fields[f][1], fields[f][2])]),
                 << Line(0, "blank", "", "", <<>>, TRUE),
                    Line(4, "def", "__str__", "", <<>>, TRUE),
                    Line(8, "stmt", "return self.title", "", <<>>, TRUE) >>,
                 meta, "blog_posts") :
        fields \in PostFields, meta \in MetaPlaces}

FileHeader ==
    << Line(0, "import", "from django.db import models", "", <<>>, TRUE),
       Line(0, "blank", "", "", <<>>, TRUE) >>

\* two applications' Post classes pasted into the same text
TwoPosts ==
    RenderClass("Post", "models.Model", <<>>,
                RenderField(FieldDecl("body", "TextField", <<>>), FALSE),
                <<>>, "none", "")
    \o RenderClass("Post", "models.Model", <<>>,
                   RenderField(FieldDecl("title", "CharField", <<Arg("max_length", "200")>>),
                               FALSE),
                   <<>>, "none", "")

DjangoSources ==
    {FileHeader \o u \o p : u \in UserClasses, p \in PostClasses}
    \cup {FileHeader \o p \o u : u \in UserClasses, p \in PostClasses}
    \cup {FileHeader \o c : c \in UserClasses \cup PostClasses}
    \cup {FileHeader \o TwoPosts}
    \cup UserClasses
    \cup {FileHeader}

Imported(sch) == [status |-> "ok", schema |-> sch]

\* parseDjangoModels(content)
ImportDjango ==
    /\ content # <<>>
    /\ imported = NotCalled
    /\ \E now \in ImportClock : imported' = Imported(parseDjangoModels(content, now))
    /\ UNCHANGED <<schema, options, exported, reimported, content>>
    /\ Untouched

InitDjango ==
    /\ schema = FamilySchema(FirstColumnKey, NoForeignKeys, <<>>)
    /\ options = ExportOptions("", None, None)
    /\ exported = NotCalled
    /\ reimported = NotCalled
    /\ content \in DjangoSources
    /\ imported = NotCalled
    /\ store = InitialStore
    /\ nextId = 0
    /\ layout = NotCalled
    /\ canvas = InitialCanvas

NextDjango == ImportDjango
SpecDjango == InitDjango /\ [][NextDjango]_vars

----------------------------------------------------------------------------
(* Properties of the Django importer                                       *)

DjangoImported == imported.status = "ok"

\* the source as the importer's class scan sees it
SourceText == cleanContent(content)
SourceModels == ModelClassLines(SourceText)
SourceBody(k) == ClassContent(SourceText, SourceModels[k])

\* model k of the file and table k of the imported schema belong together
ImportedTableOf(k) == imported.schema.tables[k]

DeclaresModel(name) ==
    \E k \in 1..Len(SourceModels) : SourceText[SourceModels[k]].name = name

ModelIndex(name) ==
    CHOOSE k \in 1..Len(SourceModels) : SourceText[SourceModels[k]].name = name

\* a ForeignKey or OneToOneField written on one line whose first argument
\* names a model class of the file
IsSingleLineReference(line) ==
    /\ line.kind = "field" /\ line.closed
    /\ line.type \in {"ForeignKey", "OneToOneField"}
    /\ line.args # <<>>
    /\ line.args[1].key = ""
    /\ DeclaresModel(line.args[1].value)

ColumnsNamed(table, name) ==
    {c \in 1..Len(table.columns) : table.columns[c].name = name}

RelationshipsFrom(sch, tableId, columnId) ==
    {r \in 1..Len(sch.relationships) :
        /\ sch.relationships[r].sourceTableId = tableId
        /\ sch.relationships[r].sourceColumnId = columnId}

FirstPrimaryKey(table) == Val(Find(table.columns, LAMBDA c : c.primaryKey))

ReferenceImported(k, line) ==
    LET sch == imported.schema
        table == ImportedTableOf(k)
        target == ImportedTableOf(ModelIndex(line.args[1].value))
        key == FirstPrimaryKey(target)
        columns == ColumnsNamed(table, line.name)
    IN /\ Cardinality(columns) = 1
       /\ \A c \in columns :
             LET column == table.columns[c]
                 rels == RelationshipsFrom(sch, table.id, column.id)
             IN /\ Cardinality(rels) = 1
                /\ \A r \in rels :
                      /\ sch.relationships[r].type =
                            (IF line.type = "OneToOneField" THEN "one-to-one" ELSE "many-to-one")
                      /\ sch.relationships[r].targetTableId = target.id
                      /\ sch.relationships[r].targetColumnId = key.id
                /\ IsSome(column.foreignKey)
                /\ Val(column.foreignKey).tableId = target.id
                /\ Val(column.foreignKey).columnId = key.id

DeclaredDbTable(body) ==
    LET places == {m \in 1..(Len(body) - 1) :
                      body[m].kind = "meta" /\ body[m + 1].kind = "db_table"}
    IN IF places = {} THEN None ELSE Some(body[Min(places) + 1].name)

\* C4: a model class whose body holds a Meta class assigning db_table gives
\* its table that name, wherever the Meta class stands; a model class
\* without one gets the snake_case of the class name.
C4_DbTableOverridesName ==
    DjangoImported =>
        \A k \in 1..Len(SourceModels) :
            ImportedTableOf(k).name =
                (IF IsSome(DeclaredDbTable(SourceBody(k)))
                 THEN Val(DeclaredDbTable(SourceBody(k)))
                 ELSE snakeCase(SourceText[SourceModels[k]].name))

\* the lines of a split declaration from an open field line to its ")"
RECURSIVE CallEnd(_, _)
CallEnd(text, i) ==
    IF i > Len(text) THEN Len(text)
    ELSE IF text[i].kind = "close" \/ (text[i].kind = "args" /\ text[i].closed) THEN i
    ELSE CallEnd(text, i + 1)

\* the same text with every split declaration written on one line
RECURSIVE OnOneLine(_)
OnOneLine(text) ==
    IF text = <<>> THEN <<>>
    ELSE IF Head(text).kind = "field" /\ ~Head(text).closed
    THEN LET end == CallEnd(text, 2)
         IN << Line(Head(text).indent, "field", Head(text).name, Head(text).type,
                    Concat([a \in 1..(end - 1) |-> text[a + 1].args]), TRUE) >>
            \o OnOneLine(SubSeq(text, end + 1, Len(text)))
    ELSE << Head(text) >> \o OnOneLine(Tail(text))

\* what an import says about columns and relationships, ids left out
ColumnOutline(sch, column) ==
    [name |-> column.name, type |-> column.type, nullable |-> column.nullable,
     primaryKey |-> column.primaryKey, unique |-> column.unique,
     defaultValue |-> column.defaultValue,
     references |-> IF IsSome(column.foreignKey)
                    THEN <<Val(column.foreignKey).tableId, Val(column.foreignKey).onDelete>>
                    ELSE <<>>]

SchemaOutline(sch) ==
    [tables |-> [t \in 1..Len(sch.tables) |->
                    [name |-> sch.tables[t].name,
                     columns |-> [c \in 1..Len(sch.tables[t].columns) |->
                                     ColumnOutline(sch, sch.tables[t].columns[c])]]],
     relationships |-> [r \in 1..Len(sch.relationships) |->
                           [id |-> sch.relationships[r].id,
                            type |-> sch.relationships[r].type]]]

\* C5: a field declaration split over several lines is imported the same as
\* the declaration written on one line: the same column type, flags,
\* default and relationship.
C5_SplitDeclarationSameAsOneLine ==
    DjangoImported =>
        SchemaOutline(imported.schema) =
            SchemaOutline(parseDjangoModels(OnOneLine(content), imported.schema.createdAt))

IsSynthesizedId(column) ==
    /\ column.name = "id" /\ column.type = "integer"
    /\ column.primaryKey /\ ~column.nullable /\ column.unique
    /\ column.description = Some("Auto-generated primary key (Django default)")

ParsedFieldsOf(k) == parseFields(SourceBody(k))

HasParsedKey(k) == \E f \in 1..Len(ParsedFieldsOf(k)) : ParsedFieldsOf(k)[f].primaryKey

----------------------------------------------------------------------------
(* hooks/use-schema.ts: the store; features/schema/utils/schema.utils.ts   *)
(* and the hooks and dialogs that edit it                                  *)
(*                                                                         *)
(* An id `${prefix}_${Date.now()}_${random}` is modelled as the pair of    *)
(* its prefix and the number of ids handed out before it, so that every    *)
(* generated id is new.  The empty string '' is the empty tuple.           *)

MaxTables == 2

\* the store is explored while it holds at most so many tables, columns per
\* table and relationships, and until the generators have handed out
\* enough ids to build and rebuild that much
MaxColumns == MaxTables
MaxStoreRelationships == MaxTables - 1
IdLimit == 2 * MaxTables + 2

ID_GENERATORS(prefix, n) == <<prefix, n>>

\* an id no generator hands out: the counter starts at 1
MissingId(prefix) == <<prefix, 0>>

\* { ...object, ...updates }
Merge(object, updates) ==
    [k \in DOMAIN object \cup DOMAIN updates |->
        IF k \in DOMAIN updates THEN updates[k] ELSE object[k]]

NoOverrides == [k \in {} |-> k]

createTable(overrides) ==
    Merge(Table(<<>>, "New Table", [x |-> 0, y |-> 0], <<>>, None), overrides)

createColumn(overrides) ==
    Merge(Column(<<>>, "", "string", TRUE, FALSE, FALSE, None, None, None), overrides)

createRelationship(sourceTableId, sourceColumnId, targetTableId, targetColumnId, type) ==
    Relationship(<<>>, sourceTableId, sourceColumnId, targetTableId, targetColumnId,
                 type, None, None, None)

\* name?.trim() is empty
IsBlank(name) == name \in {"", " "}

\* /^[a-zA-Z_][a-zA-Z0-9_]*$/
IsIdentifier(name) == name \in {"id", "title", "name", "owner_id"}

validateColumn(column) ==
    (IF IsBlank(column.name) THEN <<"Column name is required">> ELSE <<>>)
    \o (IF column.name # "" /\ ~IsIdentifier(column.name)
        THEN <<"Column name must be a valid identifier">> ELSE <<>>)
    \o (IF column.primaryKey /\ column.nullable
        THEN <<"Primary key columns cannot be nullable">> ELSE <<>>)

validateRelationship(relationship, tables) ==
    LET sourceTable == Find(tables, LAMBDA t : t.id = relationship.sourceTableId)
        targetTable == Find(tables, LAMBDA t : t.id = relationship.targetTableId)
    IN (IF relationship.sourceTableId = <<>> \/ relationship.targetTableId = <<>>
        THEN <<"Source and target tables are required">> ELSE <<>>)
       \o (IF relationship.sourceColumnId = <<>> \/ relationship.targetColumnId = <<>>
           THEN <<"Source and target columns are required">> ELSE <<>>)
       \o (IF relationship.sourceTableId = relationship.targetTableId
           THEN <<"Self-referencing relationships are not supported">> ELSE <<>>)
       \o (IF ~IsSome(sourceTable) \/ ~IsSome(targetTable)
           THEN <<"Referenced tables must exist">> ELSE <<>>)
       \o (IF IsSome(sourceTable)
              /\ ~IsSome(Find(Val(sourceTable).columns,
                              LAMBDA c : c.id = relationship.sourceColumnId))
           THEN <<"Source column must exist">> ELSE <<>>)
       \o (IF IsSome(targetTable)
              /\ ~IsSome(Find(Val(targetTable).columns,
                              LAMBDA c : c.id = relationship.targetColumnId))
           THEN <<"Target column must exist">> ELSE <<>>)

\* the store's actions, as functions of the state they are applied to
addTable(state, tableData, id) ==
    [state EXCEPT !.tables = Append(@, Merge(tableData, [id |-> id])),
                  !.isDirty = TRUE]

deleteTable(state, id) ==
    [state EXCEPT
        !.tables = Filter(@, LAMBDA t : t.id # id),
        !.relationships = Filter(@, LAMBDA rel : rel.sourceTableId # id /\ rel.targetTableId # id),
        !.selectedTableId = IF @ = Some(id) THEN None ELSE @,
        !.isDirty = TRUE]

addColumn(state, tableId, columnData, id) ==
    [state EXCEPT
        !.tables = [t \in 1..Len(@) |->
                       IF @[t].id = tableId
                       THEN [@[t] EXCEPT !.columns = Append(@, Merge(columnData, [id |-> id]))]
                       ELSE @[t]],
        !.isDirty = TRUE]

updateColumn(state, tableId, columnId, updates) ==
    [state EXCEPT
        !.tables = [t \in 1..Len(@) |->
                       IF @[t].id = tableId
                       THEN [@[t] EXCEPT !.columns =
                                [c \in 1..Len(@) |->
                                    IF @[c].id = columnId THEN Merge(@[c], updates) ELSE @[c]]]
                       ELSE @[t]],
        !.isDirty = TRUE]

deleteColumn(state, tableId, columnId) ==
    [state EXCEPT
        !.tables = [t \in 1..Len(@) |->
                       IF @[t].id = tableId
                       THEN [@[t] EXCEPT !.columns = Filter(@, LAMBDA c : c.id # columnId)]
                       ELSE @[t]],
        !.isDirty = TRUE]

addRelationship(state, relationshipData, id) ==
    [state EXCEPT !.relationships = Append(@, Merge(relationshipData, [id |-> id])),
                  !.isDirty = TRUE]

deleteRelationship(state, id) ==
    [state EXCEPT
        !.relationships = Filter(@, LAMBDA rel : rel.id # id),
        !.selectedRelationshipId = IF @ = Some(id) THEN None ELSE @,
        !.isDirty = TRUE]

\* tables.find(t => t.id === tableId), then table.columns.find(...)
StoreTable(state, tableId) == Find(state.tables, LAMBDA t : t.id = tableId)

StoreColumn(state, tableId, columnId) ==
    IF IsSome(StoreTable(state, tableId))
    THEN Find(Val(StoreTable(state, tableId)).columns, LAMBDA c : c.id = columnId)
    ELSE None

\* useTableOperations.createNewTable: a table with its id column
createNewTable(state, position, columnId, tableId) ==
    addTable(state,
             createTable([position |-> position,
                          columns |-> << Column(columnId, "id", "integer", FALSE, TRUE, TRUE,
                                                None, None, None) >>]),
             tableId)

\* useColumnOperations.createNewColumn
createNewColumn(state, tableId, columnData, id) ==
    addColumn(state, tableId, createColumn(columnData), id)

toggleColumnNullable(state, tableId, columnId) ==
    LET column == StoreColumn(state, tableId, columnId)
    IN IF ~IsSome(column) THEN state
       ELSE IF Val(column).primaryKey THEN state
       ELSE updateColumn(state, tableId, columnId, [nullable |-> ~Val(column).nullable])

toggleColumnUnique(state, tableId, columnId) ==
    LET column == StoreColumn(state, tableId, columnId)
    IN IF ~IsSome(column) THEN state
       ELSE IF Val(column).primaryKey THEN state
       ELSE updateColumn(state, tableId, columnId, [unique |-> ~Val(column).unique])

\* table.columns.forEach: the key is taken from every other key column
RECURSIVE RemoveOtherKeys(_, _, _, _)
RemoveOtherKeys(state, tableId, columns, columnId) ==
    IF columns = <<>> THEN state
    ELSE RemoveOtherKeys(
             IF Head(columns).id # columnId /\ Head(columns).primaryKey
             THEN updateColumn(state, tableId, Head(columns).id,
                               [primaryKey |-> FALSE, nullable |-> TRUE, unique |-> FALSE])
             ELSE state,
             tableId, Tail(columns), columnId)

toggleColumnPrimaryKey(state, tableId, columnId) ==
    LET column == StoreColumn(state, tableId, columnId)
    IN IF ~IsSome(column) THEN state
       ELSE IF ~Val(column).primaryKey
       THEN updateColumn(
                RemoveOtherKeys(state, tableId, Val(StoreTable(state, tableId)).columns, columnId),
                tableId, columnId,
                [primaryKey |-> TRUE, nullable |-> FALSE, unique |-> TRUE])
       ELSE updateColumn(state, tableId, columnId, [primaryKey |-> FALSE])

\* table-node.tsx handleAddColumn: the add-column form as the user left it
handleAddColumn(state, tableId, newColumn, id) ==
    IF IsBlank(newColumn.name) THEN state
    ELSE addColumn(state, tableId, newColumn, id)

\* table-node.tsx handleSaveEditColumn: the edit dialog's copy of a column
handleSaveEditColumn(state, tableId, editingColumn) ==
    IF IsBlank(editingColumn.name) THEN state
    ELSE updateColumn(state, tableId, editingColumn.id,
                      [name |-> editingColumn.name, type |-> editingColumn.type,
                       nullable |-> editingColumn.nullable,
                       primaryKey |-> editingColumn.primaryKey,
                       unique |-> editingColumn.unique,
                       defaultValue |-> editingColumn.defaultValue,
                       description |-> editingColumn.description])

\* useRelationshipOperations.createNewRelationship: the relationship is
\* added unless validateRelationship reports an error, which is thrown
createNewRelationship(state, sourceTableId, sourceColumnId, targetTableId, targetColumnId, type, id) ==
    LET newRelationshipData ==
            createRelationship(sourceTableId, sourceColumnId, targetTableId,
                               targetColumnId, type)
    IN IF validateRelationship(newRelationshipData, state.tables) # <<>>
       THEN state
       ELSE addRelationship(state, newRelationshipData, id)

----------------------------------------------------------------------------
(* Calls on the store                                                      *)

\* Math.random() * 400 + 100 and Math.random() * 300 + 100
RandomPositions == {[x |-> 100, y |-> 100]}

TableIdChoices == {store.tables[t].id : t \in 1..Len(store.tables)} \cup {MissingId("table")}

ColumnIdChoices ==
    UNION {{store.tables[t].columns[c].id : c \in 1..Len(store.tables[t].columns)} :
              t \in 1..Len(store.tables)}
    \cup {MissingId("col")}

\* what the add-column form holds when Add Column is pressed; the fields the
\* form leaves undefined are None
NewColumnForms ==
    {[name |-> n, type |-> "string", nullable |-> ~required, primaryKey |-> key,
      unique |-> FALSE, defaultValue |-> None, foreignKey |-> None,
      description |-> None] :
        n \in {"title", ""}, required \in BOOLEAN, key \in BOOLEAN}

\* the overrides callers of createNewColumn pass
ColumnOverrides == {NoOverrides, [name |-> "title", primaryKey |-> TRUE]}

\* the edit dialog's copy of a column after the user changed its checkboxes
EditedColumns(column) ==
    {[column EXCEPT !.nullable = ~required, !.primaryKey = key] :
        required \in BOOLEAN, key \in BOOLEAN}

RoomForColumn(tableId) ==
    IsSome(StoreTable(store, tableId)) =>
        Len(Val(StoreTable(store, tableId)).columns) < MaxColumns

OnlyStore ==
    UNCHANGED <<schema, options, exported, reimported, content, imported, layout, canvas>>

CreateNewTable ==
    /\ Len(store.tables) < MaxTables
    /\ nextId + 2 <= IdLimit
    /\ \E position \in RandomPositions :
          store' = createNewTable(store, position, ID_GENERATORS("col", nextId + 1),
                                  ID_GENERATORS("table", nextId + 2))
    /\ nextId' = nextId + 2
    /\ OnlyStore

CreateNewColumn ==
    /\ nextId + 1 <= IdLimit
    /\ \E tableId \in TableIdChoices, columnData \in ColumnOverrides :
          /\ RoomForColumn(tableId)
          /\ store' = createNewColumn(store, tableId, columnData, ID_GENERATORS("col", nextId + 1))
    /\ nextId' = nextId + 1
    /\ OnlyStore

HandleAddColumn ==
    /\ nextId + 1 <= IdLimit
    /\ \E t \in 1..Len(store.tables), newColumn \in NewColumnForms :
          /\ RoomForColumn(store.tables[t].id)
          /\ store' = handleAddColumn(store, store.tables[t].id, newColumn,
                                      ID_GENERATORS("col", nextId + 1))
          /\ nextId' = IF IsBlank(newColumn.name) THEN nextId ELSE nextId + 1
    /\ OnlyStore

HandleSaveEditColumn ==
    /\ \E t \in 1..Len(store.tables) : \E c \in 1..Len(store.tables[t].columns) :
          \E editingColumn \in EditedColumns(store.tables[t].columns[c]) :
              store' = handleSaveEditColumn(store, store.tables[t].id, editingColumn)
    /\ UNCHANGED nextId
    /\ OnlyStore

ToggleColumnPrimaryKey ==
    /\ \E tableId \in TableIdChoices, columnId \in ColumnIdChoices :
          store' = toggleColumnPrimaryKey(store, tableId, columnId)
    /\ UNCHANGED nextId
    /\ OnlyStore

ToggleColumnNullable ==
    /\ \E tableId \in TableIdChoices, columnId \in ColumnIdChoices :
          store' = toggleColumnNullable(store, tableId, columnId)
    /\ UNCHANGED nextId
    /\ OnlyStore

ToggleColumnUnique ==
    /\ \E tableId \in TableIdChoices, columnId \in ColumnIdChoices :
          store' = toggleColumnUnique(store, tableId, columnId)
    /\ UNCHANGED nextId
    /\ OnlyStore

DeleteColumn ==
    /\ \E tableId \in TableIdChoices, columnId \in ColumnIdChoices :
          store' = deleteColumn(store, tableId, columnId)
    /\ UNCHANGED nextId
    /\ OnlyStore

DeleteTable ==
    /\ \E tableId \in TableIdChoices : store' = deleteTable(store, tableId)
    /\ UNCHANGED nextId
    /\ OnlyStore

CreateNewRelationship ==
    /\ Len(store.relationships) < MaxStoreRelationships
    /\ nextId + 1 <= IdLimit
    /\ \E sourceTableId \in TableIdChoices, targetTableId \in TableIdChoices,
          sourceColumnId \in ColumnIdChoices, targetColumnId \in ColumnIdChoices :
          LET after == createNewRelationship(store, sourceTableId, sourceColumnId,
                                             targetTableId, targetColumnId, "one-to-many",
                                             ID_GENERATORS("rel", nextId + 1))
          IN /\ store' = after
             /\ nextId' = IF after = store THEN nextId ELSE nextId + 1
    /\ OnlyStore

DeleteRelationship ==
    /\ \E r \in 1..Len(store.relationships) :
          store' = deleteRelationship(store, store.relationships[r].id)
    /\ UNCHANGED nextId
    /\ OnlyStore

InitStore ==
    /\ schema = FamilySchema(FirstColumnKey, NoForeignKeys, <<>>)
    /\ options = ExportOptions("", None, None)
    /\ exported = NotCalled
    /\ reimported = NotCalled
    /\ content = <<>>
    /\ imported = NotCalled
    /\ store = InitialStore
    /\ nextId = 0
    /\ layout = NotCalled
    /\ canvas = InitialCanvas

NextStore ==
    \/ CreateNewTable \/ CreateNewColumn \/ DeleteColumn \/ DeleteTable
    \/ CreateNewRelationship \/ DeleteRelationship

SpecStore == InitStore /\ [][NextStore]_vars

\* the column editing operations of the table node and its hooks
NextColumns ==
    \/ CreateNewTable \/ CreateNewColumn \/ HandleAddColumn \/ HandleSaveEditColumn
    \/ ToggleColumnPrimaryKey \/ ToggleColumnNullable \/ ToggleColumnUnique

SpecColumns == InitStore /\ [][NextColumns]_vars

----------------------------------------------------------------------------
(* Claims about the store                                                  *)

HasColumn(tables, tableId, columnId) ==
    \E t \in 1..Len(tables) :
        /\ tables[t].id = tableId
        /\ \E c \in 1..Len(tables[t].columns) : tables[t].columns[c].id = columnId

StoreRelationshipResolves(relationship, tables) ==
    /\ HasColumn(tables, relationship.sourceTableId, relationship.sourceColumnId)
    /\ HasColumn(tables, relationship.targetTableId, relationship.targetColumnId)

\* C12: in every state reached from the empty store by addTable, addColumn,
\* deleteColumn, deleteTable, createNewRelationship and deleteRelationship,
\* each relationship's source and target table ids name tables of the store
\* and its source and target column ids name columns of those tables.
C12_RelationshipsResolve ==
    \A r \in 1..Len(store.relationships) :
        StoreRelationshipResolves(store.relationships[r], store.tables)

StoreColumns ==
    UNION {Range(store.tables[t].columns) : t \in 1..Len(store.tables)}

\* C13: in every state reached through createNewTable, createNewColumn, the
\* three column toggles and the table node's add-column and edit-column
\* dialogs, a column with primaryKey = true has nullable = false.
C13_PrimaryKeyNotNullable ==
    \A column \in StoreColumns : column.primaryKey => ~column.nullable

----------------------------------------------------------------------------
(* lib/layout/auto-layout.ts: AutoLayout                                   *)

DEFAULT_OPTIONS ==
    [algorithm |-> "force-directed", spacing |-> [x |-> 350, y |-> 280],
     centerOffset |-> [x |-> 400, y |-> 300], iterations |-> Some(300)]

\* {...table, position}
WithPosition_Bare(table, position) ==
    [table EXCEPT !.position = position, !.columns = <<>>]

WithPosition(table, position) == [table EXCEPT !.position = position]

\* Math.ceil(Math.sqrt(n))
CeilSqrt(n) == CHOOSE c \in 0..n : c * c >= n /\ (c = 0 \/ (c - 1) * (c - 1) < n)

gridLayout(tables, opts) ==
    LET columns == CeilSqrt(Len(tables))
    IN [i \in 1..Len(tables) |->
           LET index == i - 1
               row == index \div columns
               col == index % columns
           IN WithPosition(tables[i],
                           [x |-> opts.centerOffset.x + col * opts.spacing.x,
                            y |-> opts.centerOffset.y + row * opts.spacing.y])]

\* every id the in-degree map can come to hold; an id it does not hold reads
\* as 0 through (inDegree.get(id) || 0)
GraphIds(tables, relationships) ==
    {tables[t].id : t \in 1..Len(tables)}
    \cup {relationships[r].targetTableId : r \in 1..Len(relationships)}

\* tables.forEach: an empty Set of targets and in-degree 0 for each table
EmptyGraph(tables, relationships) ==
    [adjacencyList |-> [id \in {tables[t].id : t \in 1..Len(tables)} |-> <<>>],
     inDegree |-> [id \in GraphIds(tables, relationships) |-> 0]]

\* relationships.forEach: the Set keeps a target once, in insertion order,
\* and the in-degree grows with every relationship of a known source
RECURSIVE BuildGraph(_, _)
BuildGraph(graph, relationships) ==
    IF relationships = <<>> THEN graph
    ELSE LET rel == Head(relationships)
         IN BuildGraph(
                IF rel.sourceTableId \in DOMAIN graph.adjacencyList
                THEN [adjacencyList |->
                          [graph.adjacencyList EXCEPT ![rel.sourceTableId] =
                              IF rel.targetTableId \in Range(@) THEN @
                              ELSE Append(@, rel.targetTableId)],
                      inDegree |->
                          [graph.inDegree EXCEPT ![rel.targetTableId] = @ + 1]]
                ELSE graph,
                Tail(relationships))

\* neighbors.forEach inside the walk of one level
RECURSIVE VisitNeighbors(_, _)
VisitNeighbors(walk, neighbors) ==
    IF neighbors = <<>> THEN walk
    ELSE LET neighbor == Head(neighbors)
             degree == walk.inDegree[neighbor] - 1
         IN VisitNeighbors(
                [walk EXCEPT !.inDegree[neighbor] = degree,
                             !.queue = IF degree = 0 /\ neighbor \notin walk.visited
                                       THEN Append(@, neighbor) ELSE @],
                Tail(neighbors))

\* currentLevel.forEach
RECURSIVE VisitLevel(_, _, _)
VisitLevel(walk, adjacencyList, currentLevel) ==
    IF currentLevel = <<>> THEN walk
    ELSE LET nodeId == Head(currentLevel)
         IN VisitLevel(
                IF nodeId \in walk.visited THEN walk
                ELSE LET marked == [walk EXCEPT !.visited = @ \cup {nodeId}]
                     IN IF nodeId \in DOMAIN adjacencyList
                        THEN VisitNeighbors(marked, adjacencyList[nodeId])
                        ELSE marked,
                adjacencyList, Tail(currentLevel))

\* while (queue.length > 0)
RECURSIVE WalkLevels(_, _)
WalkLevels(walk, adjacencyList) ==
    IF walk.queue = <<>> THEN walk
    ELSE WalkLevels(
             VisitLevel([walk EXCEPT !.queue = <<>>, !.levels = Append(@, walk.queue)],
                        adjacencyList, walk.queue),
             adjacencyList)

\* the levels of hierarchicalLayout, the leftover level included
HierarchyLevels(tables, relationships) ==
    LET graph == BuildGraph(EmptyGraph(tables, relationships), relationships)
        roots == Filter([t \in 1..Len(tables) |-> tables[t].id],
                        LAMBDA id : graph.inDegree[id] = 0)
        walk == WalkLevels([inDegree |-> graph.inDegree, queue |-> roots,
                            visited |-> {}, levels |-> <<>>],
                           graph.adjacencyList)
        remainingNodes == Filter(tables, LAMBDA t : t.id \notin walk.visited)
    IN [levels |-> IF Len(remainingNodes) > 0
                   THEN Append(walk.levels,
                               [n \in 1..Len(remainingNodes) |-> remainingNodes[n].id])
                   ELSE walk.levels,
        remainingNodes |-> remainingNodes]

\* levelMap.get(id) || 0: the last level holding the id, counted from 0
LevelOf(levels, id) ==
    IF \E l \in 1..Len(levels) : id \in Range(levels[l])
    THEN (CHOOSE l \in 1..Len(levels) :
              /\ id \in Range(levels[l])
              /\ \A m \in (l + 1)..Len(levels) : id \notin Range(levels[m])) - 1
    ELSE 0

\* Array.prototype.indexOf, counted from 0
IndexOf(s, e) ==
    IF e \in Range(s) THEN (CHOOSE i \in 1..Len(s) : s[i] = e /\ \A j \in 1..(i - 1) : s[j] # e) - 1
    ELSE -1

\* x offsets are whole numbers for the even spacing.x the options carry:
\* (indexInLevel - levelWidth / 2) * spacing.x
hierarchicalLayout(tables, relationships, opts) ==
    LET levels == HierarchyLevels(tables, relationships).levels
    IN [i \in 1..Len(tables) |->
           LET level == LevelOf(levels, tables[i].id)
               levelTables == levels[level + 1]
               indexInLevel == IndexOf(levelTables, tables[i].id)
               levelWidth == Len(levelTables)
           IN WithPosition(tables[i],
                           [x |-> opts.centerOffset.x
                                   + ((2 * indexInLevel - levelWidth) * opts.spacing.x) \div 2,
                            y |-> opts.centerOffset.y + level * opts.spacing.y])]

\* for (let iter = 0; iter < iterations; iter++): one pass for each value
\* iter takes before the test fails
SimulationPasses(iterations) ==
    Cardinality({iter \in 0..iterations : iter < iterations})

\* The simulation starts from Math.random() positions and moves the nodes
\* with floating-point forces; placed[i] is the rounded, centred position it
\* ends with for table i, any point of the canvas.
forceDirectedLayout(tables, relationships, opts, placed) ==
    LET iterations == IF IsSome(opts.iterations) /\ Val(opts.iterations) # 0
                      THEN Val(opts.iterations) ELSE 300
    IN [tables |-> [i \in 1..Len(tables) |-> WithPosition(tables[i], placed[i])],
        passes |-> SimulationPasses(iterations)]

\* Math.round(centre + radius * cos/sin(angle)) with the default spacing and
\* centre, radius = 280 * sqrt(n) / (2 * PI) and angle = 2 * PI * index / n - PI / 2
CirclePoints(n) ==
    CASE n = 0 -> <<>>
      [] n = 1 -> << <<400, 255>> >>
      [] n = 2 -> << <<400, 237>>, <<400, 363>> >>
      [] n = 3 -> << <<400, 223>>, <<467, 339>>, <<333, 339>> >>
      [] n = 4 -> << <<400, 211>>, <<489, 300>>, <<400, 389>>, <<311, 300>> >>

circularLayout(tables, opts) ==
    [i \in 1..Len(tables) |->
        WithPosition(tables[i], [x |-> CirclePoints(Len(tables))[i][1],
                                 y |-> CirclePoints(Len(tables))[i][2]])]

LayoutResult(given, tables, passes) ==
    [status |-> "ok", options |-> given, tables |-> tables, passes |-> passes]

layoutTables(tables, relationships, given, placed) ==
    LET opts == Merge(DEFAULT_OPTIONS, given)
    IN CASE opts.algorithm = "grid" ->
                LayoutResult(given, gridLayout(tables, opts), 0)
         [] opts.algorithm = "hierarchical" ->
                LayoutResult(given, hierarchicalLayout(tables, relationships, opts), 0)
         [] opts.algorithm = "circular" ->
                LayoutResult(given, circularLayout(tables, opts), 0)
         [] OTHER ->
                LET result == forceDirectedLayout(tables, relationships, opts, placed)
                IN LayoutResult(given, result.tables, result.passes)

----------------------------------------------------------------------------
(* Calls of the layout                                                     *)

LayoutTable(n, name) ==
    Table(ID_GENERATORS("table", n), name, [x |-> 0, y |-> 0],
          << Column(ID_GENERATORS("col", n), "id", "integer", FALSE, TRUE, TRUE,
                    None, None, None) >>,
          None)

Users == LayoutTable(1, "users")
Posts == LayoutTable(2, "posts")
Comments == LayoutTable(3, "comments")

LayoutTableLists ==
    {<<>>, <<Users>>, <<Users, Posts>>, <<Users, Posts, Comments>>,
     <<Comments, Users, Posts>>}

\* source and target table numbers; table 9 is not on the canvas
LayoutEdges == {<<1, 2>>, <<2, 3>>, <<2, 1>>, <<2, 9>>}

LayoutRelationship(n, edge) ==
    Relationship(ID_GENERATORS("rel", n), ID_GENERATORS("table", edge[1]),
                 ID_GENERATORS("col", edge[1]), ID_GENERATORS("table", edge[2]),
                 ID_GENERATORS("col", edge[2]), "one-to-many", None, None, None)

LayoutRelationshipLists ==
    {[n \in 1..Len(edges) |-> LayoutRelationship(n, edges[n])] :
        edges \in SeqsUpTo(LayoutEdges, MaxRelationships + 2)}

IterationCounts == {None, Some(0), Some(1), Some(3)}

GivenOptions ==
    {NoOverrides}
    \cup {[algorithm |-> a] : a \in {"grid", "hierarchical", "circular", "force-directed"}}
    \cup {[algorithm |-> "force-directed", iterations |-> i] : i \in IterationCounts}
    \cup {[iterations |-> i] : i \in IterationCounts}

\* two outcomes of the simulation: every node on the centre, or the nodes
\* spread along a diagonal
ForcePlacements(n) ==
    {[i \in 1..n |-> [x |-> 400, y |-> 300]],
     [i \in 1..n |-> [x |-> 400 + 120 * (2 * i - n - 1), y |-> 300 - 90 * (2 * i - n - 1)]]}

LayoutTables ==
    /\ \E given \in GivenOptions, placed \in ForcePlacements(Len(store.tables)) :
          layout' = layoutTables(store.tables, store.relationships, given, placed)
    /\ UNCHANGED <<schema, options, exported, reimported, content, imported, store, nextId,
                   canvas>>

InitLayout ==
    /\ schema = FamilySchema(FirstColumnKey, NoForeignKeys, <<>>)
    /\ options = ExportOptions("", None, None)
    /\ exported = NotCalled
    /\ reimported = NotCalled
    /\ content = <<>>
    /\ imported = NotCalled
    /\ \E tables \in LayoutTableLists, relationships \in LayoutRelationshipLists :
          store = [InitialStore EXCEPT !.tables = tables, !.relationships = relationships]
    /\ nextId = 0
    /\ layout = NotCalled
    /\ canvas = InitialCanvas

NextLayout == LayoutTables

SpecLayout == InitLayout /\ [][NextLayout]_vars

----------------------------------------------------------------------------
(* Claims about the layout                                                 *)

LayoutDone == layout.status = "ok"

AlgorithmUsed == Merge(DEFAULT_OPTIONS, layout.options).algorithm

CanvasIds == {store.tables[t].id : t \in 1..Len(store.tables)}

\* the relationships between tables of the canvas, as source/target pairs
CanvasEdges ==
    {<<store.relationships[r].sourceTableId, store.relationships[r].targetTableId>> :
        r \in {q \in 1..Len(store.relationships) :
                  /\ store.relationships[q].sourceTableId \in CanvasIds
                  /\ store.relationships[q].targetTableId \in CanvasIds}}

RECURSIVE ReachedWithin(_, _)
ReachedWithin(ids, steps) ==
    IF steps = 0 THEN ids
    ELSE ReachedWithin(ids \cup {e[2] : e \in {d \in CanvasEdges : d[1] \in ids}}, steps - 1)

OnCycle(id) ==
    id \in ReachedWithin({e[2] : e \in {d \in CanvasEdges : d[1] = id}}, Len(store.tables))

NoDirectedCycle == \A id \in CanvasIds : ~OnCycle(id)

PlacedY(id) ==
    LET t == CHOOSE i \in 1..Len(layout.tables) : layout.tables[i].id = id
    IN layout.tables[t].position.y

\* C14: hierarchical layout of a relationship graph without a directed cycle
\* places every relationship's source table on a smaller y than its target
\* table and puts no table into the leftover level (only tables on a cycle
\* go there).
C14_HierarchyOrdersAcyclicGraph ==
    (LayoutDone /\ AlgorithmUsed = "hierarchical" /\ NoDirectedCycle) =>
        /\ \A e \in CanvasEdges : PlacedY(e[1]) < PlacedY(e[2])
        /\ \A t \in Range(HierarchyLevels(store.tables, store.relationships).remainingNodes) :
               OnCycle(t.id)

\* the iteration count the caller gave, if any
GivenIterations ==
    IF "iterations" \in DOMAIN layout.options THEN layout.options.iterations ELSE None

\* C15: force-directed layout makes exactly options.iterations passes for
\* every non-negative count the caller gives, and 300 passes when no count
\* is given.
C15_ExactlyIterationsPasses ==
    (LayoutDone /\ AlgorithmUsed = "force-directed") =>
        layout.passes = IF IsSome(GivenIterations) THEN Val(GivenIterations) ELSE 300

\* C16: for each of the four algorithms layoutTables returns one entry per
\* input table, in input order, equal to the input table in everything but
\* position, and the input tables are as they were.
C16_OnlyPositionsChange ==
    LayoutDone =>
        /\ Len(layout.tables) = Len(store.tables)
        /\ \A i \in 1..Len(store.tables) :
               [layout.tables[i] EXCEPT !.position = store.tables[i].position]
                   = store.tables[i]

C16_Witness ==
    /\ LayoutDone
    /\ AlgorithmUsed = "hierarchical"
    /\ Len(store.tables) = 3
    /\ Len(store.relationships) >= 2
    /\ \E i \in 1..Len(store.tables) : layout.tables[i].position # store.tables[i].position

----------------------------------------------------------------------------
(* More properties of the Django importer                                  *)

\* the ManyToManyField declarations of model k, each read as one
\* declaration whether it is written on one line or split
ManyToManyDeclarations(k) ==
    Filter(OnOneLine(SourceBody(k)),
           LAMBDA line : /\ line.kind = "field"
                         /\ line.type = "ManyToManyField"
                         /\ line.args # <<>>
                         /\ line.args[1].key = "")

\* the many-to-many relationships the schema holds for a field of a table
ManyToManyNamed(sch, tableId, name) ==
    {r \in 1..Len(sch.relationships) :
        /\ sch.relationships[r].type = "many-to-many"
        /\ sch.relationships[r].sourceTableId = tableId
        /\ sch.relationships[r].name = Some(name)}

ManyToManyImported(k, line) ==
    LET sch == imported.schema
        rels == ManyToManyNamed(sch, ImportedTableOf(k).id, line.name)
    IN IF DeclaresModel(line.args[1].value)
       THEN /\ Cardinality(rels) = 1
            /\ \A r \in rels :
                  /\ sch.relationships[r].targetTableId
                        = ImportedTableOf(ModelIndex(line.args[1].value)).id
                  /\ sch.relationships[r].sourceColumnId = <<>>
                  /\ sch.relationships[r].targetColumnId = <<>>
       ELSE rels = {}

\* C17: every ManyToManyField whose first argument names a model declared
\* in the file yields exactly one many-to-many relationship from the
\* declaring model's table to that model's table, with empty source and
\* target column ids and the field name as its name; a ManyToManyField to a
\* model the file does not declare yields none.
C17_ManyToManyBecomesRelationship ==
    DjangoImported =>
        \A k \in 1..Len(SourceModels) :
            \A d \in 1..Len(ManyToManyDeclarations(k)) :
                ManyToManyImported(k, ManyToManyDeclarations(k)[d])

\* the class declarations of the text as written whose base list mentions
\* models.Model, in the order of the text
DeclaredModelClasses ==
    Filter(content, LAMBDA line : line.kind = "class" /\ IncludesModelsModel(line.type))

ImportedColumnIds ==
    Concat([t \in 1..Len(imported.schema.tables) |->
               [c \in 1..Len(imported.schema.tables[t].columns) |->
                   imported.schema.tables[t].columns[c].id]])

Distinct(s) == \A a, b \in 1..Len(s) : a # b => s[a] # s[b]

\* C18: the imported schema holds one table per class declaration whose base
\* list mentions models.Model and none for another class, in the order of
\* the declarations; its table ids are pairwise distinct and so are its
\* column ids.
C18_OneTablePerModelDistinctIds ==
    DjangoImported =>
        /\ Len(imported.schema.tables) = Len(DeclaredModelClasses)
        /\ \A k \in 1..Len(DeclaredModelClasses) :
              ImportedTableOf(k).name
                  = TableNameOfModel(ParsedModel(SourceText, SourceModels[k]))
        /\ Distinct([t \in 1..Len(imported.schema.tables) |-> imported.schema.tables[t].id])
        /\ Distinct(ImportedColumnIds)

\* the text as written declares no class on models.Model
NoModelClass ==
    \A i \in 1..Len(content) :
        content[i].kind = "class" =>
            content[i].type \notin {"models.Model", "TimeStamped, models.Model"}

\* the names on the left of a "name = models.Type" in the text, and the
\* synthesized id; no other line of a text can give a column
DeclaredFieldNames ==
    {content[i].name : i \in {j \in 1..Len(content) : content[j].kind = "field"}}
    \cup {content[i].args[1].key :
              i \in {j \in 1..Len(content) :
                         /\ content[j].kind = "args"
                         /\ content[j].args # <<>>
                         /\ IsSome(ModelsAttribute(content[j].args[1].value))}}
    \cup {"id"}

\* the text without the import line validateDjangoModels asks for
WithoutImport(text) == Filter(text, LAMBDA line : line.kind # "import")

FieldDeclarations(k) ==
    Filter(OnOneLine(SourceBody(k)), LAMBDA line : line.kind = "field")

HasKey(args, key) == \E a \in 1..Len(args) : args[a].key = key

DefaultsImported(k, line) ==
    \A c \in ColumnsNamed(ImportedTableOf(k), line.name) :
        LET column == ImportedTableOf(k).columns[c]
        IN /\ (/\ line.type \notin {"ForeignKey", "OneToOneField", "ManyToManyField"}
               /\ ~HasKey(line.args, "null")
               /\ ~HasKey(line.args, "blank")
               /\ ~HasKey(line.args, "primary_key"))
              => /\ column.nullable
                 /\ column.unique <=> HasArg(line.args, "unique", "True")
           /\ (/\ line.type \in {"ForeignKey", "OneToOneField"}
               /\ ~HasArg(line.args, "null", "True")
               /\ ~HasArg(line.args, "blank", "True"))
              => ~column.nullable

\* C20: a field that is no relationship and is declared without null, blank
\* and primary_key arguments is imported nullable, and unique exactly when
\* unique=True is among its arguments; a ForeignKey or OneToOneField
\* declared without null=True and without blank=True is imported with
\* nullable = false.
C20_NullableAndUniqueDefaults ==
    DjangoImported =>
        \A k \in 1..Len(SourceModels) :
            \A d \in 1..Len(FieldDeclarations(k)) :
                ColumnsNamed(ImportedTableOf(k), FieldDeclarations(k)[d].name) # {}
                /\ DefaultsImported(k, FieldDeclarations(k)[d])

----------------------------------------------------------------------------
(* Input family for the column renderers: one table whose second column    *)
(* ranges over every ColumnType and a type outside the enumeration, both   *)
(* nullabilities, the key flag and the default values the exporters tell   *)
(* apart.                                                                  *)

UnknownType == "geometry"

DefaultValues ==
    {None, Some("0"), Some("42"), Some("3.14"), Some("true"), Some("FALSE"),
     Some("now"), Some("NOW"), Some("current_timestamp"), Some("CURRENT_TIMESTAMP"),
     Some("active"), Some("it's")}

TypedSchema(type, nullable, primaryKey, defaultValue) ==
    SchemaRec("schema-1", "shop", None,
              << Table("t1", "users", [x |-> 100, y |-> 0],
                       << Column("t1c1", "id", "integer", FALSE, TRUE, FALSE, None, None, None),
                          Column("t1c2", "title", type, nullable, primaryKey, FALSE,
                                 defaultValue, None, None) >>,
                       None) >>,
              <<>>, Date(1000), Date(2000), [number |-> 1])

TypedSchemas ==
    {TypedSchema(type, nullable, primaryKey, defaultValue) :
        type \in ColumnTypes \cup {UnknownType}, nullable \in BOOLEAN,
        primaryKey \in BOOLEAN, defaultValue \in DefaultValues}

----------------------------------------------------------------------------
(* lib/utils/sql.ts: the single-table SQL path                             *)

SqlUtilTypeMap(dialect) ==
    CASE dialect = "postgresql" ->
        [string |-> "VARCHAR(255)", text |-> "TEXT", integer |-> "INTEGER",
         bigint |-> "BIGINT", float |-> "REAL", decimal |-> "DECIMAL",
         boolean |-> "BOOLEAN", date |-> "DATE", datetime |-> "TIMESTAMP",
         timestamp |-> "TIMESTAMP", time |-> "TIME", json |-> "JSON",
         jsonb |-> "JSONB", uuid |-> "UUID", binary |-> "BYTEA",
         enum |-> "VARCHAR(50)", array |-> "TEXT[]"]
      [] dialect = "mysql" ->
        [string |-> "VARCHAR(255)", text |-> "TEXT", integer |-> "INT",
         bigint |-> "BIGINT", float |-> "FLOAT", decimal |-> "DECIMAL",
         boolean |-> "BOOLEAN", date |-> "DATE", datetime |-> "DATETIME",
         timestamp |-> "TIMESTAMP", time |-> "TIME", json |-> "JSON",
         jsonb |-> "JSON", uuid |-> "CHAR(36)", binary |-> "BLOB",
         enum |-> "ENUM(\"\")", array |-> "JSON"]
      [] dialect = "sqlite" ->
        [string |-> "TEXT", text |-> "TEXT", integer |-> "INTEGER",
         bigint |-> "INTEGER", float |-> "REAL", decimal |-> "REAL",
         boolean |-> "INTEGER", date |-> "TEXT", datetime |-> "TEXT",
         timestamp |-> "TEXT", time |-> "TEXT", json |-> "TEXT",
         jsonb |-> "TEXT", uuid |-> "TEXT", binary |-> "BLOB",
         enum |-> "TEXT", array |-> "TEXT"]
      [] dialect = "sqlserver" ->
        [string |-> "NVARCHAR(255)", text |-> "NVARCHAR(MAX)", integer |-> "INT",
         bigint |-> "BIGINT", float |-> "FLOAT", decimal |-> "DECIMAL",
         boolean |-> "BIT", date |-> "DATE", datetime |-> "DATETIME2",
         timestamp |-> "DATETIME2", time |-> "TIME", json |-> "NVARCHAR(MAX)",
         jsonb |-> "NVARCHAR(MAX)", uuid |-> "UNIQUEIDENTIFIER",
         binary |-> "VARBINARY(MAX)", enum |-> "NVARCHAR(50)",
         array |-> "NVARCHAR(MAX)"]

\* typeMap[dialect]?.[type] || 'VARCHAR(255)'
mapColumnTypeToSQL(type, dialect) ==
    IF dialect \in SQLDialects /\ type \in DOMAIN SqlUtilTypeMap(dialect)
    THEN SqlUtilTypeMap(dialect)[type]
    ELSE "VARCHAR(255)"

escapeIdentifier(name, dialect) ==
    CASE dialect = "mysql" -> [quote |-> "backtick", name |-> name]
      [] dialect \in {"postgresql", "sqlserver"} -> [quote |-> "double", name |-> name]
      [] OTHER -> [quote |-> "bracket", name |-> name]

generateColumnSQL(column, dialect) ==
    [name |-> escapeIdentifier(column.name, dialect),
     type |-> mapColumnTypeToSQL(column.type, dialect),
     notNull |-> ~column.nullable,
     primaryKey |-> column.primaryKey,
     unique |-> column.unique /\ ~column.primaryKey,
     default |-> IF Truthy(column.defaultValue) THEN column.defaultValue ELSE None]

generateForeignKeySQL(column, dialect) ==
    LET fk == Val(column.foreignKey)
    IN [kind |-> "CONSTRAINT",
        name |-> escapeIdentifier(<<"fk", column.name, fk.tableId>>, dialect),
        column |-> escapeIdentifier(column.name, dialect),
        references |-> <<escapeIdentifier(fk.tableId, dialect),
                         escapeIdentifier(fk.columnId, dialect)>>,
        onDelete |-> IF Truthy(fk.onDelete) THEN fk.onDelete ELSE None,
        onUpdate |-> IF Truthy(fk.onUpdate) THEN fk.onUpdate ELSE None]

generateCommentSQL(comment, dialect) ==
    [kind |-> "comment", style |-> IF dialect = "mysql" THEN "/* */" ELSE "--",
     text |-> comment]

IsForeignKeyColumn(col) == IsSome(col.foreignKey)

\* generateTableSQL(table, {dialect, includeDescriptions = false})
generateTableSQL(table, dialect, includeDescriptions) ==
    LET foreignKeyColumns == Filter(table.columns, IsForeignKeyColumn)
    IN [kind |-> "CREATE TABLE",
        table |-> escapeIdentifier(table.name, dialect),
        columns |-> [j \in 1..Len(table.columns) |->
                        generateColumnSQL(table.columns[j], dialect)],
        constraints |-> [k \in 1..Len(foreignKeyColumns) |->
                            generateForeignKeySQL(foreignKeyColumns[k], dialect)],
        comment |-> IF includeDescriptions /\ Truthy(table.description)
                    THEN Some(generateCommentSQL(<<"Table: ", Val(table.description)>>, dialect))
                    ELSE None]

\* generateTableSQL called on a table of the schema
GenerateTableSQL ==
    /\ exported = NotCalled
    /\ \E i \in 1..Len(schema.tables), dialect \in SQLDialects, includeDescriptions \in BOOLEAN :
          /\ options' = ExportOptions("generateTableSQL", Some(dialect), None)
          /\ exported' = Returned(generateTableSQL(schema.tables[i], dialect, includeDescriptions))
    /\ UNCHANGED <<schema, reimported, content, imported>>
    /\ Untouched

InitTyped == InitExporter(TypedSchemas)
NextTyped == ExportSQL \/ ExportPrisma \/ Export \/ GenerateTableSQL
SpecTyped == InitTyped /\ [][NextTyped]_vars

----------------------------------------------------------------------------
(* Properties of the column renderers                                      *)

\* the rendered definition of the typed column in a SQL export of a TypedSchema
TypedColumn == schema.tables[1].columns[2]
TypedColumnDef == exported.text[2].columns[2]

DefaultRenderedAs(kind, text) ==
    TypedColumnDef.default = Some([kind |-> kind, text |-> text])

\* C21: in a SQL export a column's default is rendered unquoted when it is a
\* numeric literal, as the dialect's boolean literal when it is true/false,
\* as CURRENT_TIMESTAMP when it is now or current_timestamp in any letter
\* case, and as a single-quoted literal with quotes doubled otherwise.
C21_SqlDefaultRendering ==
    (SqlExported /\ schema \in TypedSchemas /\ Truthy(TypedColumn.defaultValue)) =>
        LET value == Val(TypedColumn.defaultValue)
        IN  IF IsNumericLiteral(value) THEN DefaultRenderedAs("number", value)
            ELSE IF toLowerCase(value) = "true"
                THEN DefaultRenderedAs("boolean", IF SqlDialectUsed = "postgresql" THEN "TRUE" ELSE "1")
            ELSE IF toLowerCase(value) = "false"
                THEN DefaultRenderedAs("boolean", IF SqlDialectUsed = "postgresql" THEN "FALSE" ELSE "0")
            ELSE IF toLowerCase(value) \in {"now", "current_timestamp"}
                THEN DefaultRenderedAs("keyword", "CURRENT_TIMESTAMP")
            ELSE DefaultRenderedAs("string", EscapeQuotes(value))

\* the call that produced `exported`, repeated on another schema
Recalled(sch) ==
    IF options.format = "generateTableSQL"
    THEN Returned(generateTableSQL(sch.tables[1], Val(options.sqlDialect), FALSE))
    ELSE ExportManagerExport(sch, options, Date(5000))

TypeTargets == {"sql", "generateTableSQL", "prisma", "django", "laravel", "typeorm"}

\* what the type-mapping function of the target returned for the typed column
MappedType(result) ==
    CASE options.format = "sql" -> <<result.text[2].columns[2].type>>
      [] options.format = "generateTableSQL" -> <<result.text.columns[2].type>>
      [] options.format = "prisma" -> <<result.text[3].body[2].type>>
      [] options.format = "django" -> <<result.text[2].fields[2].definition.field>>
      [] options.format = "laravel" -> <<result.text[2].columns[2].column[1]>>
      [] options.format = "typeorm" -> <<result.text[2].columns[2].column[1],
                                         result.text[2].columns[2].column[2]>>

AsString(sch) ==
    TypedSchema("string", sch.tables[1].columns[2].nullable, sch.tables[1].columns[2].primaryKey,
                sch.tables[1].columns[2].defaultValue)

TypedExport == schema \in TypedSchemas /\ exported # NotCalled /\ options.format \in TypeTargets

\* C22: for each ColumnType and every target the type mapping returns a
\* non-empty type literal without raising, and for a type outside the
\* enumeration it returns the same target's mapping of the type string.
C22_TypeMappingTotal ==
    TypedExport =>
        /\ exported.status = "ok"
        /\ MappedType(exported)[1] # ""
        /\ TypedColumn.type = UnknownType =>
               MappedType(exported) = MappedType(Recalled(AsString(schema)))

\* the field lines of a Prisma export of a TypedSchema, one per column
PrismaFieldLine(j) == exported.text[3].body[j]

\* C23: in a Prisma export each column's field line carries the marker '?'
\* once when the column is nullable and not at all when it is not, with or
\* without a default value.
C23_PrismaOptionalMarkerOnce ==
    (PrismaCalled /\ exported.status = "ok" /\ schema \in TypedSchemas) =>
        \A j \in 1..Len(schema.tables[1].columns) :
            PrismaFieldLine(j).optionalMarks =
                IF schema.tables[1].columns[j].nullable THEN 1 ELSE 0

----------------------------------------------------------------------------
(* Input family for the constraint names: the two tables of the exporter   *)
(* family, with relationships that may connect the same pair of tables     *)
(* through different columns.                                              *)

ParallelRelationships ==
    {Relationship(id, "t2", c, "t1", "t1c1", "one-to-many", None, None, None) :
        id \in {"rel-1", "rel-2"}, c \in {"t2c1", "t2c2"}}
    \cup {Relationship("rel-3", "t1", "t1c2", "t2", "t2c1", "one-to-many", None, None, None)}

ParallelLists ==
    {rels \in SeqsUpTo(ParallelRelationships, MaxRelationships + 1) :
        \A a, b \in 1..Len(rels) : a # b => rels[a].id # rels[b].id}

ParallelSchemas ==
    {FamilySchema(FirstColumnKey, fk, rels) :
        fk \in {NoForeignKeys,
                [NoForeignKeys EXCEPT ![2][2] = Some(ForeignKey("t1", "t1c1", None, None))]},
        rels \in ParallelLists}

InitNames == InitExporter(ParallelSchemas)
NextNames == ExportSQL \/ Export
SpecNames == InitNames /\ [][NextNames]_vars

\* the ALTER TABLE ... ADD CONSTRAINT statements of the exported SQL text
ConstraintStatements ==
    {k \in 1..Len(exported.text) : exported.text[k].kind = "ALTER TABLE"}

\* C24: within one SQL export of a schema with distinct table names and
\* distinct column names per table, the emitted foreign-key constraint names
\* are pairwise distinct, also when several relationships connect the same
\* pair of tables.
C24_ConstraintNamesDistinct ==
    (SqlExported /\ schema \in ParallelSchemas) =>
        \A a, b \in ConstraintStatements :
            a # b => exported.text[a].constraint # exported.text[b].constraint

----------------------------------------------------------------------------
(* More properties of the column renderers                                 *)

TableSqlGenerated ==
    exported.status = "ok" /\ options.format = "generateTableSQL" /\ schema \in TypedSchemas

PrimaryKeyConstraints(statement) ==
    {k \in 1..Len(statement.constraints) : statement.constraints[k].kind = "PRIMARY KEY"}

InlinePrimaryKeys(statement) ==
    {j \in 1..Len(statement.columns) : statement.columns[j].primaryKey}

KeyColumnIndexes(table) ==
    {j \in 1..Len(table.columns) : table.columns[j].primaryKey}

\* C26: generateTableSQL renders a table with more than one primaryKey
\* column with exactly one table-level PRIMARY KEY constraint and no inline
\* PRIMARY KEY, and a table with exactly one primaryKey column with an
\* inline PRIMARY KEY on that column only.
C26_TableSqlPrimaryKey ==
    TableSqlGenerated =>
        LET table == schema.tables[1]
        IN  /\ Cardinality(KeyColumnIndexes(table)) > 1 =>
                   /\ Cardinality(PrimaryKeyConstraints(exported.text)) = 1
                   /\ InlinePrimaryKeys(exported.text) = {}
            /\ Cardinality(KeyColumnIndexes(table)) = 1 =>
                   InlinePrimaryKeys(exported.text) = KeyColumnIndexes(table)

DjangoExported ==
    exported.status = "ok" /\ options.format = "django" /\ schema \in TypedSchemas

DeclaresPrimaryKey(field) ==
    \E k \in 1..Len(field.definition.args) : field.definition.args[k] = <<"primary_key=True">>

\* C30: in a Django export a field is emitted with primary_key=True if and
\* only if its column has primaryKey = true.
C30_DjangoPrimaryKeyIffColumn ==
    DjangoExported =>
        \A j \in 1..Len(schema.tables[1].columns) :
            DeclaresPrimaryKey(exported.text[2].fields[j]) <=> schema.tables[1].columns[j].primaryKey

----------------------------------------------------------------------------
(* hooks/use-schema.ts: selection and reset                                *)

setSelectedTable(state, id) ==
    [state EXCEPT !.selectedTableId = id, !.selectedRelationshipId = None]

setSelectedRelationship(state, id) ==
    [state EXCEPT !.selectedRelationshipId = id, !.selectedTableId = None]

clearSchema(state) ==
    [state EXCEPT !.tables = <<>>, !.relationships = <<>>, !.selectedTableId = None,
                  !.selectedRelationshipId = None, !.isDirty = FALSE]

StoreTableIds == {store.tables[t].id : t \in 1..Len(store.tables)}
StoreRelationshipIds == {store.relationships[r].id : r \in 1..Len(store.relationships)}

\* a click on a table of the canvas, or on its background (null)
SetSelectedTable ==
    /\ \E id \in {None} \cup {Some(t) : t \in StoreTableIds} :
          store' = setSelectedTable(store, id)
    /\ UNCHANGED nextId
    /\ OnlyStore

\* a click on an edge of the canvas, or on its background (null)
SetSelectedRelationship ==
    /\ \E id \in {None} \cup {Some(r) : r \in StoreRelationshipIds} :
          store' = setSelectedRelationship(store, id)
    /\ UNCHANGED nextId
    /\ OnlyStore

ClearSchema ==
    /\ store' = clearSchema(store)
    /\ UNCHANGED nextId
    /\ OnlyStore

NextSelection ==
    \/ CreateNewTable \/ CreateNewRelationship \/ DeleteColumn \/ DeleteTable
    \/ DeleteRelationship \/ SetSelectedTable \/ SetSelectedRelationship \/ ClearSchema

SpecSelection == InitStore /\ [][NextSelection]_vars

\* C27: in every store state reached by store operations in which only
\* existing items are selected, a selectedTableId that is not null names an
\* existing table and a selectedRelationshipId that is not null names an
\* existing relationship.
C27_SelectionNamesExistingItem ==
    /\ IsSome(store.selectedTableId) => Val(store.selectedTableId) \in StoreTableIds
    /\ IsSome(store.selectedRelationshipId) =>
           Val(store.selectedRelationshipId) \in StoreRelationshipIds

----------------------------------------------------------------------------
(* lib/layout/auto-layout.ts: recommendLayout                              *)

\* numerator / denominator >= p / q in floating point, q > 0: n / 0 is
\* Infinity for n > 0 and NaN, which compares false, for n = 0
RatioAtLeast(numerator, denominator, p, q) ==
    IF denominator = 0 THEN numerator > 0
    ELSE q * numerator >= p * denominator

\* adjacencyList.get(nodeId) || []
Neighbors(tables, relationships, nodeId) ==
    IF \E i \in 1..Len(tables) : tables[i].id = nodeId
    THEN LET outgoing == Filter(relationships, LAMBDA rel : rel.sourceTableId = nodeId)
         IN [k \in 1..Len(outgoing) |-> outgoing[k].targetTableId]
    ELSE <<>>

RECURSIVE dfs(_, _, _, _, _)
RECURSIVE DfsNeighbors(_, _, _, _, _, _)

\* search is [visited, maxDepth]: the two variables the closure shares
dfs(tables, relationships, nodeId, depth, search) ==
    IF nodeId \in search.visited THEN search
    ELSE DfsNeighbors(tables, relationships, Neighbors(tables, relationships, nodeId), 1,
                      depth + 1,
                      [visited |-> search.visited \cup {nodeId},
                       maxDepth |-> IF depth > search.maxDepth THEN depth ELSE search.maxDepth])

DfsNeighbors(tables, relationships, neighbors, k, depth, search) ==
    IF k > Len(neighbors) THEN search
    ELSE DfsNeighbors(tables, relationships, neighbors, k + 1, depth,
                      dfs(tables, relationships, neighbors[k], depth, search))

RECURSIVE DfsTables(_, _, _, _)
DfsTables(tables, relationships, i, search) ==
    IF i > Len(tables) THEN search
    ELSE DfsTables(tables, relationships, i + 1,
                   dfs(tables, relationships, tables[i].id, 0, search))

calculateMaxDepth(tables, relationships) ==
    DfsTables(tables, relationships, 1, [visited |-> {}, maxDepth |-> 0]).maxDepth

hasClearHierarchy(tables, relationships) ==
    LET targeted == {relationships[r].targetTableId : r \in 1..Len(relationships)}
        rootNodes == Cardinality({tables[i].id : i \in 1..Len(tables)} \ targeted)
        maxDepth == calculateMaxDepth(tables, relationships)
    IN rootNodes > 0 /\ maxDepth > 2

recommendLayout(tables, relationships) ==
    LET tableCount == Len(tables)
        relationshipCount == Len(relationships)
    IN IF tableCount <= 6 /\ RatioAtLeast(relationshipCount, tableCount, 3, 2)
       THEN "circular"
       ELSE IF RatioAtLeast(relationshipCount, tableCount, 4, 5)
               /\ hasClearHierarchy(tables, relationships)
       THEN "hierarchical"
       ELSE "force-directed"

\* Input family: every order of every choice among four tables, and every
\* order of every choice among five relationships, one of which leads to a
\* table that is not on the canvas.
CanvasTables ==
    <<Users, Posts, Comments, LayoutTable(4, "tags")>>

CanvasRelationships ==
    [n \in 1..5 |-> LayoutRelationship(n, << <<1, 2>>, <<2, 3>>, <<3, 4>>, <<1, 3>>, <<2, 9>> >>[n])]

Orderings(items) ==
    {list \in SeqsUpTo(Range(items), Len(items)) :
        \A a, b \in 1..Len(list) : a # b => list[a] # list[b]}

\* the items of `list` in the order they have in `items`
InOrderOf(items, list) == Filter(items, LAMBDA item : item \in Range(list))

Recommended(algorithm) == [status |-> "recommended", algorithm |-> algorithm]

RecommendLayout ==
    /\ layout = NotCalled
    /\ layout' = Recommended(recommendLayout(store.tables, store.relationships))
    /\ UNCHANGED <<schema, options, exported, reimported, content, imported, store, nextId,
                   canvas>>

InitRecommend ==
    /\ schema = FamilySchema(FirstColumnKey, NoForeignKeys, <<>>)
    /\ options = ExportOptions("", None, None)
    /\ exported = NotCalled
    /\ reimported = NotCalled
    /\ content = <<>>
    /\ imported = NotCalled
    /\ \E tables \in Orderings(CanvasTables), relationships \in Orderings(CanvasRelationships) :
          store = [InitialStore EXCEPT !.tables = tables, !.relationships = relationships]
    /\ nextId = 0
    /\ layout = NotCalled
    /\ canvas = InitialCanvas

NextRecommend == RecommendLayout

SpecRecommend == InitRecommend /\ [][NextRecommend]_vars

\* C29: recommendLayout depends only on the set of tables and the set of
\* relationships: the algorithm recommended for the arrays in any order is
\* the one recommended for the same tables and relationships in the order
\* of the canvas.
C29_RecommendationIgnoresOrder ==
    layout.status = "recommended" =>
        layout.algorithm = recommendLayout(InOrderOf(CanvasTables, store.tables),
                                           InOrderOf(CanvasRelationships, store.relationships))

----------------------------------------------------------------------------
(* hooks/use-canvas-state.ts, components/schema/schema-canvas.tsx and      *)
(* components/schema/node-context-menu.tsx                                 *)

\* the canvas is explored until so many highlight timers have been started
\* and so much time has passed
MaxHighlights == MaxTables + 1
TimeLimit == 2 * MaxTables

\* the durations of a highlight, in seconds
HighlightDurations == {1, 2}

showNodeContextMenu(c, nodeId) == [c EXCEPT !.contextMenu = Some([nodeId |-> nodeId])]

hideAllContextMenus(c) == [c EXCEPT !.contextMenu = None]

\* {canvasState.contextMenu && <NodeContextMenu ... />}: the component is
\* mounted, with useState(false), while contextMenu is set, and unmounted,
\* losing its state, when it is null
Render(c) ==
    IF ~IsSome(c.contextMenu) THEN [c EXCEPT !.menu = None]
    ELSE IF ~IsSome(c.menu) THEN [c EXCEPT !.menu = Some([isDeleteDialogOpen |-> FALSE])]
    ELSE c

\* NodeContextMenu.handleDelete: setIsDeleteDialogOpen(true); onClose()
handleDelete(c) ==
    hideAllContextMenus([c EXCEPT !.menu = Some([isDeleteDialogOpen |-> TRUE])])

\* <AlertDialog open={isDeleteDialogOpen}> of a rendered NodeContextMenu
DeleteDialogVisible(c) ==
    IsSome(c.contextMenu) /\ IsSome(c.menu) /\ Val(c.menu).isDeleteDialogOpen

\* setHighlightedEdgeId(edgeId); setTimeout(() => setHighlightedEdgeId(null), duration)
highlightEdgeTemporarily(c, edgeId, duration) ==
    [c EXCEPT !.highlightedEdgeId = Some(edgeId),
              !.calls = @ + 1,
              !.timers = @ \cup {[call |-> c.calls + 1, edge |-> edgeId,
                                  due |-> c.now + duration]}]

\* the callback of a timer: () => setHighlightedEdgeId(null)
TimerCallback(c, timer) ==
    [c EXCEPT !.highlightedEdgeId = None, !.timers = @ \ {timer}]

OnlyCanvas ==
    UNCHANGED <<schema, options, exported, reimported, content, imported, store, nextId, layout>>

\* a right click on a node of the canvas
HandleNodeContextMenu ==
    /\ \E nodeId \in TableIdChoices :
          canvas' = IF IsSome(StoreTable(store, nodeId))
                    THEN Render(showNodeContextMenu(canvas, nodeId))
                    ELSE canvas
    /\ OnlyCanvas

\* a click on the pane, outside the menu, or the Escape key
HandlePaneClick ==
    /\ canvas' = Render(hideAllContextMenus(canvas))
    /\ OnlyCanvas

\* a click on Delete Table in the rendered context menu
HandleDelete ==
    /\ IsSome(canvas.menu)
    /\ canvas' = Render(handleDelete(canvas))
    /\ OnlyCanvas

\* a click on a connection in the connection panel
HandleHighlightConnection ==
    /\ canvas.calls < MaxHighlights
    /\ \E relationshipId \in StoreRelationshipIds, duration \in HighlightDurations :
          canvas' = highlightEdgeTemporarily(canvas, relationshipId, duration)
    /\ OnlyCanvas

\* a timer that is due runs its callback
TimerFires ==
    /\ \E timer \in canvas.timers :
          /\ timer.due <= canvas.now
          /\ canvas' = TimerCallback(canvas, timer)
    /\ OnlyCanvas

\* a second passes; timers run when they are due
Tick ==
    /\ canvas.now < TimeLimit
    /\ \A timer \in canvas.timers : timer.due > canvas.now
    /\ canvas' = [canvas EXCEPT !.now = @ + 1]
    /\ OnlyCanvas

InitCanvas ==
    /\ schema = FamilySchema(FirstColumnKey, NoForeignKeys, <<>>)
    /\ options = ExportOptions("", None, None)
    /\ exported = NotCalled
    /\ reimported = NotCalled
    /\ content = <<>>
    /\ imported = NotCalled
    /\ store = [InitialStore EXCEPT
                   !.tables = <<Users, Posts>>,
                   !.relationships = << LayoutRelationship(1, <<1, 2>>),
                                        LayoutRelationship(2, <<2, 1>>) >>]
    /\ nextId = 0
    /\ layout = NotCalled
    /\ canvas = InitialCanvas

NextCanvas ==
    \/ HandleNodeContextMenu \/ HandlePaneClick \/ HandleDelete
    \/ HandleHighlightConnection \/ TimerFires \/ Tick

SpecCanvas == InitCanvas /\ [][NextCanvas]_vars

\* C25: after the user picks Delete Table in a table's context menu the
\* delete-confirmation dialog is visible (from where confirming removes the
\* table with its relationships and cancelling leaves the schema as it is).
C25_DeleteOpensConfirmation ==
    [][HandleDelete => DeleteDialogVisible(canvas')]_vars

\* C28: after highlightEdgeTemporarily(e, d) the edge e stays highlighted
\* for the whole duration d unless a later highlight call replaces it: while
\* the duration of the latest call has not passed, its edge is highlighted.
C28_HighlightLastsItsDuration ==
    \A timer \in canvas.timers :
        (timer.call = canvas.calls /\ canvas.now < timer.due) =>
            canvas.highlightedEdgeId = Some(timer.edge)
====
